---- MODULE Spec2Model ----
(***************************************************************************)
(* A model of prody/measure.py: the optimal-rotation solver                *)
(* (calcTransformation), batch superposition (_superpose) and the RMSD     *)
(* engine (calcRMSD).                                                      *)
(*                                                                         *)
(* Numbers are exact: a coordinate, weight or matrix entry is a rational   *)
(* <<n, d>> in lowest terms with d > 0, and np.sqrt(q) is the real whose   *)
(* square is q, kept as [radicand |-> q].  Floating-point rounding is not  *)
(* modelled.                                                               *)
(*                                                                         *)
(* An ndarray is [kind |-> "ndarray", shape |-> <<...>>, data |-> nested   *)
(* sequences]; Python's None is [kind |-> "None"].                         *)
(***************************************************************************)
EXTENDS Integers, Sequences, FiniteSets, TLC

\* ------------------------------------------------------------------------
\* Bounds of the model
\* ------------------------------------------------------------------------

\* Singular vectors are searched among the primitive integer directions with
\* entries in -MaxDir..MaxDir (normalised to unit length).
MaxDir == 1

\* Half-axes of the point sets drawn as inputs lie in 0..MaxScale.
MaxScale == 2

\* Weights drawn as inputs lie in 1..MaxWeight.
MaxWeight == 2

\* ------------------------------------------------------------------------
\* Exact rational arithmetic
\* ------------------------------------------------------------------------

Abs(x) == IF x < 0 THEN -x ELSE x

RECURSIVE Gcd(_, _)
Gcd(a, b) == IF b = 0 THEN a ELSE Gcd(b, a % b)

\* The rational n/d in lowest terms (d # 0).
Rat(n, d) ==
    LET g == Gcd(Abs(n), Abs(d))
        s == IF d < 0 THEN -1 ELSE 1
    IN  <<(s * n) \div g, (s * d) \div g>>

Q(n) == <<n, 1>>
Zero == <<0, 1>>
One == <<1, 1>>

RAdd(x, y) == IF x[2] = 1 /\ y[2] = 1 THEN <<x[1] + y[1], 1>>
              ELSE Rat(x[1] * y[2] + y[1] * x[2], x[2] * y[2])
RNeg(x) == <<-x[1], x[2]>>
RSub(x, y) == RAdd(x, RNeg(y))
RMul(x, y) == IF x[2] = 1 /\ y[2] = 1 THEN <<x[1] * y[1], 1>>
              ELSE Rat(x[1] * y[1], x[2] * y[2])
RDiv(x, y) == Rat(x[1] * y[2], x[2] * y[1])
RSign(x) == IF x[1] > 0 THEN 1 ELSE IF x[1] < 0 THEN -1 ELSE 0
RLeq(x, y) == x[1] * y[2] <= y[1] * x[2]

\* Sum of a sequence of rationals.
RECURSIVE RSumTo(_, _)
RSumTo(s, k) == IF k = 0 THEN Zero ELSE RAdd(RSumTo(s, k - 1), s[k])
RSum(s) == RSumTo(s, Len(s))

\* np.sqrt(q) for q >= 0: the non-negative real whose square is q.
Sqrt(q) == [radicand |-> q]

\* ------------------------------------------------------------------------
\* ndarrays and None
\* ------------------------------------------------------------------------

None == [kind |-> "None"]
IsNone(x) == x.kind = "None"
Arr(shape, data) == [kind |-> "ndarray", shape |-> shape, data |-> data]
ndim(x) == Len(x.shape)

\* The last element, and the last two elements, of a shape tuple.
Last(s) == s[Len(s)]
Last2(s) == SubSeq(s, Len(s) - 1, Len(s))
First2(s) == SubSeq(s, 1, 2)

\* ------------------------------------------------------------------------
\* numpy operations on the data of 2-D arrays (a sequence of rows)
\* ------------------------------------------------------------------------

Cols(X) == 1..Len(X[1])

\* X.sum(axis=0)
sum0(X) == [a \in Cols(X) |-> RSum([i \in 1..Len(X) |-> X[i][a]])]

\* X.mean(0)
mean0(X) == [a \in Cols(X) |-> RDiv(sum0(X)[a], Q(Len(X)))]

\* v / s for a vector v and a scalar s
VecDiv(v, s) == [a \in DOMAIN v |-> RDiv(v[a], s)]

\* v - w for two vectors of one length
VecSub(v, w) == [a \in DOMAIN v |-> RSub(v[a], w[a])]
VecAdd(v, w) == [a \in DOMAIN v |-> RAdd(v[a], w[a])]

\* X - c and X + c: the row vector c is broadcast over the rows of X
SubRow(X, c) == [i \in 1..Len(X) |-> VecSub(X[i], c)]
AddRow(X, c) == [i \in 1..Len(X) |-> VecAdd(X[i], c)]

\* X * w for X of shape (N, k) and w of shape (N, 1): w is broadcast over
\* the columns of X
MulCol(X, w) == [i \in 1..Len(X) |-> [a \in Cols(X) |-> RMul(X[i][a], w[i][1])]]

\* X.sum() of a 2-D array
sumAll(X) == RSum([i \in 1..Len(X) |-> RSum(X[i])])

\* np.dot(A.T, B) for A of shape (N, p) and B of shape (N, q)
DotT(A, B) ==
    [a \in Cols(A) |-> [b \in Cols(B) |->
        RSum([i \in 1..Len(A) |-> RMul(A[i][a], B[i][b])])]]

\* np.dot(A, B) for 2-D A (n, k) and B (k, m)
Dot(A, B) ==
    [i \in 1..Len(A) |-> [j \in Cols(B) |->
        RSum([k \in 1..Len(B) |-> RMul(A[i][k], B[k][j])])]]

\* np.dot(v, M) for a vector v (k,) and a matrix M (k, m)
VecDot(v, M) ==
    [j \in Cols(M) |-> RSum([k \in 1..Len(M) |-> RMul(v[k], M[k][j])])]

\* M / s : every entry of M divided by the scalar s
MatDiv(M, s) == [i \in 1..Len(M) |-> VecDiv(M[i], s)]

\* M.T
Transpose(M) == [j \in Cols(M) |-> [i \in 1..Len(M) |-> M[i][j]]]

\* linalg.det of a 3x3 matrix
det(M) ==
    RAdd(RSub(RMul(M[1][1], RSub(RMul(M[2][2], M[3][3]), RMul(M[2][3], M[3][2]))),
              RMul(M[1][2], RSub(RMul(M[2][1], M[3][3]), RMul(M[2][3], M[3][1])))),
         RMul(M[1][3], RSub(RMul(M[2][1], M[3][2]), RMul(M[2][2], M[3][1]))))

\* np.sign
sign(x) == Q(RSign(x))

Identity3 == << <<One, Zero, Zero>>, <<Zero, One, Zero>>, <<Zero, Zero, One>> >>

\* ------------------------------------------------------------------------
\* linalg.svd of a 3x3 matrix
\*
\* svd returns (U, s, Vh) with matrix = U . diag(s) . Vh, U and Vh
\* orthogonal and s non-negative and descending.  The factors are not
\* unique (signs, and any basis of a repeated or zero singular value), so
\* the result is a choice among all of them.  A unit vector is kept as an
\* integer direction d, standing for d / |d|; the model holds the
\* decompositions whose singular vectors are directions of Dirs.
\* ------------------------------------------------------------------------

Range == (0 - MaxDir)..MaxDir

Dirs == {d \in Range \X Range \X Range :
            /\ d # <<0, 0, 0>>
            /\ Gcd(Gcd(Abs(d[1]), Abs(d[2])), Abs(d[3])) = 1}

IDot(u, v) == u[1] * v[1] + u[2] * v[2] + u[3] * v[3]
Norm2(u) == IDot(u, u)

\* f as an explicit table (TLC otherwise recomputes f[x] at each use).
Table(f) == f @@ <<>>

\* The directions orthogonal to a direction.
OrthTo == Table([u \in Dirs |-> {v \in Dirs : IDot(u, v) = 0}])

\* One direction of each pair d, -d: the one whose first non-zero entry is
\* positive.
Leading(d) == IF d[1] # 0 THEN d[1] ELSE IF d[2] # 0 THEN d[2] ELSE d[3]
PosDirs == {d \in Dirs : Leading(d) > 0}
PosOrthTo == Table([u \in Dirs |-> OrthTo[u] \cap PosDirs])

Lcm(a, b) == (a * b) \div Gcd(a, b)

\* A positive multiple of the rational matrix M with integer entries: the
\* singular vectors of M are those of any positive multiple of it.
IntMultiple(M) ==
    LET l == Lcm(Lcm(Lcm(M[1][1][2], M[1][2][2]), Lcm(M[1][3][2], M[2][1][2])),
                 Lcm(Lcm(Lcm(M[2][2][2], M[2][3][2]), Lcm(M[3][1][2], M[3][2][2])),
                     M[3][3][2]))
    IN  [a \in 1..3 |-> [b \in 1..3 |-> M[a][b][1] * (l \div M[a][b][2])]]

\* (M^T u), for an integer matrix M and a vector u.
TransMul(M, u) == [b \in 1..3 |-> M[1][b] * u[1] + M[2][b] * u[2] + M[3][b] * u[3]]

\* The left singular frames <<u1, u2, u3>> of the integer matrix M: the
\* images W[u_k] = M^T u_k are mutually orthogonal and their lengths
\* |M^T u_k| / |u_k| (the singular values) descend.  Negating u_k and v_k
\* together gives another decomposition with the same products v_k u_k^T,
\* the only use the callers make of U and Vh: of the two, the one with u_k
\* in PosDirs is kept.
Descending(W, u, v) == Norm2(W[u]) * Norm2(v) >= Norm2(W[v]) * Norm2(u)

LeftFramesOf(W) ==
    UNION { UNION { { <<u1, u2, u3>> :
                        u3 \in {x \in PosOrthTo[u1] \cap PosOrthTo[u2] :
                                   /\ IDot(W[x], W[u1]) = 0
                                   /\ IDot(W[x], W[u2]) = 0
                                   /\ Descending(W, u2, x)} } :
                    u2 \in {x \in PosOrthTo[u1] :
                               IDot(W[x], W[u1]) = 0 /\ Descending(W, u1, x)} } :
            u1 \in PosDirs }

LeftFrames(M) == LeftFramesOf(Table([u \in Dirs |-> TransMul(M, u)]))

\* The directions v_k may take: that of w = M^T u_k where it is not zero
\* (M^T u_k = s_k v_k), and any direction where s_k = 0.
Primitive(w) ==
    LET g == Gcd(Gcd(Abs(w[1]), Abs(w[2])), Abs(w[3]))
    IN  <<w[1] \div g, w[2] \div g, w[3] \div g>>

RightChoices(w) ==
    IF w = <<0, 0, 0>> THEN Dirs ELSE {Primitive(w)} \cap Dirs

\* The right singular frames that go with a left frame U.
RightFrames(M, U) ==
    UNION { UNION { UNION { { <<v1, v2, v3>> : v3 \in C[3] \cap OrthTo[v1] \cap OrthTo[v2] } :
                            v2 \in C[2] \cap OrthTo[v1] } :
                    v1 \in C[1] } :
            C \in {[k \in 1..3 |-> RightChoices(TransMul(M, U[k]))]} }

\* linalg.svd(matrix): every (U, Vh) it may return; U[k] is column k of U
\* and Vh[k] is row k of Vh, as directions (s is not used by the callers).
svd(matrix) ==
    UNION { UNION { { [U |-> U, Vh |-> V] : V \in RightFrames(M, U) } :
                    U \in LeftFrames(M) } :
            M \in {IntMultiple(matrix)} }

\* The integer square root of a perfect square, -1 otherwise, for the
\* products of two squared lengths of directions.
MaxNorm2 == 3 * MaxDir * MaxDir
Roots == Table([n \in 0..(MaxNorm2 * MaxNorm2) |->
                   IF \E r \in 0..MaxNorm2 : r * r = n
                   THEN CHOOSE r \in 0..MaxNorm2 : r * r = n
                   ELSE 0 - 1])
ISqrt(n) == Roots[n]

\* |Vh[k]| . |U[k]|, the length by which term k of the product below is
\* divided (-1 when it is irrational).
Length(f, k) == ISqrt(Norm2(f.Vh[k]) * Norm2(f.U[k]))

\* np.dot(Vh.T, np.dot(Id, U.T)) can be written with rational entries: each
\* length that the diagonal of Id does not multiply by zero is rational.
Representable(f, Id) == \A k \in 1..3 : Id[k][k] = Zero \/ Length(f, k) > 0

\* np.dot(Vh.T, np.dot(Id, U.T)) for a diagonal Id and unit-vector matrices
\* U, Vh given by directions: entry (i, j) is the sum over k of
\* Vh[k][i] . Id[k][k] . U[j][k], each vector divided by its length.
RotationOf(f, Id) ==
    [i \in 1..3 |-> [j \in 1..3 |->
        RSum([k \in 1..3 |->
            IF Id[k][k] = Zero THEN Zero
            ELSE RMul(Id[k][k], Rat(f.Vh[k][i] * f.U[k][j], Length(f, k)))])]]

\* ------------------------------------------------------------------------
\* Transformation and the optimal-rotation solver
\* ------------------------------------------------------------------------

Transformation(rotation, translation) ==
    [kind |-> "Transformation", rotation |-> rotation, translation |-> translation]

\* A ValueError, and the function that raised it.
ValueError(where) == [kind |-> "ValueError", where |-> where]
IsError(x) == x.kind = "ValueError"

\* Covariance with the weighted matrix divided by the square of the sum of
\* the weights.
CovarianceBySquaredSum(mob, tar, weights) ==
    IF IsNone(weights)
    THEN LET mob_com == mean0(mob)
             tar_com == mean0(tar)
         IN  [mob_com |-> mob_com, tar_com |-> tar_com,
              matrix |-> DotT(SubRow(tar, tar_com), SubRow(mob, mob_com))]
    ELSE LET w == weights.data
             weights_sum == sumAll(w)
             mob_com == VecDiv(sum0(MulCol(mob, w)), weights_sum)
             tar_com == VecDiv(sum0(MulCol(tar, w)), weights_sum)
         IN  [mob_com |-> mob_com, tar_com |-> tar_com,
              matrix |-> MatDiv(DotT(MulCol(SubRow(tar, tar_com), w),
                                     MulCol(SubRow(mob, mob_com), w)),
                                RMul(weights_sum, weights_sum))]

\* _calcTransformation, lines 170-183: the centroids and the
\* cross-covariance matrix.  mob, tar: data of (N, 3) arrays; weights: None
\* or an (N, 1) array.
Covariance(mob, tar, weights) ==
    IF IsNone(weights)
    THEN LET mob_com == mean0(mob)
             tar_com == mean0(tar)
         IN  [mob_com |-> mob_com, tar_com |-> tar_com,
              matrix |-> DotT(SubRow(tar, tar_com), SubRow(mob, mob_com))]
    ELSE LET w == weights.data
             weights_sum == sumAll(w)
             weights_dot == DotT(w, w)
             mob_com == VecDiv(sum0(MulCol(mob, w)), weights_sum)
             tar_com == VecDiv(sum0(MulCol(tar, w)), weights_sum)
         IN  [mob_com |-> mob_com, tar_com |-> tar_com,
              matrix |-> MatDiv(DotT(MulCol(SubRow(tar, tar_com), w),
                                     MulCol(SubRow(mob, mob_com), w)),
                                weights_dot[1][1])]

\* ReflectionFix without the sign of the determinant.
ReflectionFixOff(matrix) == Identity3

\* _calcTransformation, lines 186-188
ReflectionFix(matrix) ==
    << <<One, Zero, Zero>>, <<Zero, One, Zero>>, <<Zero, Zero, sign(det(matrix))>> >>

\* _calcTransformation, lines 185-194: every Transformation the call may
\* return for the centroids and matrix c, one for each result of svd.
Rotations(c) ==
    UNION { { Transformation(rotation, VecSub(c.tar_com, VecDot(c.mob_com, rotation))) :
              rotation \in { RotationOf(f, Id) :
                             f \in {g \in svd(c.matrix) : Representable(g, Id)} } } :
            Id \in {ReflectionFix(c.matrix)} }

_calcTransformation(mob, tar, weights) ==
    UNION { Rotations(c) : c \in {Covariance(mob, tar, weights)} }

\* calcTransformation, lines 150-162: the shape checks.
ShapesAgree(mob, tar, w) ==
    /\ mob.shape = tar.shape
    /\ mob.shape[2] = 3
    /\ IsNone(w) \/ w.shape = <<mob.shape[1], 1>>

\* _applyTransformation
\* The points as columns: R*x + t.
_applyTransformationColumns(t, coords) ==
    AddRow(Dot(coords, Transpose(t.rotation)), t.translation)

_applyTransformation(t, coords) == AddRow(Dot(coords, t.rotation), t.translation)

\* ------------------------------------------------------------------------
\* The RMSD engine
\* ------------------------------------------------------------------------

\* (ref - t) ** 2 for two (N, 3) arrays
SqDiff(ref, t) ==
    [i \in 1..Len(ref) |-> [a \in Cols(ref) |->
        RMul(RSub(ref[i][a], t[i][a]), RSub(ref[i][a], t[i][a]))]]

\* W.sum() of a 3-D array, and W.sum(1).flatten()
sumAll3(W) == RSum([m \in 1..Len(W) |-> sumAll(W[m])])
sum1OfAll(W) == [m \in 1..Len(W) |-> sumAll3(W)]
sum1(W) == [m \in 1..Len(W) |-> sumAll(W[m])]

Max(a, b) == IF a >= b THEN a ELSE b

\* Whether numpy can broadcast shapes (n, 3) and (m, nw, 1) together.
Broadcastable(n, nw) == n = nw \/ n = 1 \/ nw = 1

\* (sq * W).sum() for sq of shape (n, 3) and W of shape (m, nw, 1), which
\* numpy broadcasts to (m, max(n, nw), 3).
BroadcastSum(sq, W) ==
    RSum([m \in 1..Len(W) |->
        RSum([j \in 1..Max(Len(sq), Len(W[m])) |->
            RSum([k \in Cols(sq) |->
                RMul(sq[IF Len(sq) = 1 THEN 1 ELSE j][k],
                     W[m][IF Len(W[m]) = 1 THEN 1 ELSE j][1])])])])

Value(v) == [kind |-> "value", value |-> v]

\* _calcRMSD with every weighted sum divided by the number of atoms.
_calcRMSDOverN(ref, tar, weights) ==
    LET divByN == RDiv(One, Q(ref.shape[1]))
        sq(t) == SqDiff(ref.data, t)
    IN  IF IsNone(weights)
        THEN IF ndim(tar) = 2
             THEN Value(Sqrt(RMul(sumAll(sq(tar.data)), divByN)))
             ELSE Value([i \in 1..Len(tar.data) |->
                          Sqrt(RMul(sumAll(sq(tar.data[i])), divByN))])
        ELSE IF ndim(tar) = 2
             THEN Value(Sqrt(RMul(sumAll(MulCol(sq(tar.data), weights.data)), divByN)))
             ELSE Value([i \in 1..Len(tar.data) |->
                          Sqrt(RMul(sumAll(MulCol(sq(tar.data[i]),
                                                  IF ndim(weights) = 2 THEN weights.data
                                                  ELSE weights.data[i])),
                                    divByN))])

\* _calcRMSD, lines 328-351.  ref, tar: arrays; weights: None or an array.
_calcRMSD(ref, tar, weights) ==
    IF IsNone(weights)
    THEN LET divByN == RDiv(One, Q(ref.shape[1]))
         IN  IF ndim(tar) = 2
             THEN Value(Sqrt(RMul(sumAll(SqDiff(ref.data, tar.data)), divByN)))
             ELSE Value([i \in 1..Len(tar.data) |->
                          Sqrt(RMul(sumAll(SqDiff(ref.data, tar.data[i])), divByN))])
    ELSE IF ndim(tar) = 2
         THEN IF ndim(weights) = 2
              THEN Value(Sqrt(RMul(sumAll(MulCol(SqDiff(ref.data, tar.data), weights.data)),
                                   RDiv(One, sumAll(weights.data)))))
              ELSE IF Broadcastable(ref.shape[1], weights.shape[2])
                   THEN Value(Sqrt(RMul(BroadcastSum(SqDiff(ref.data, tar.data), weights.data),
                                        RDiv(One, sumAll3(weights.data)))))
                   ELSE ValueError("_calcRMSD")
         ELSE IF ndim(weights) = 2
              THEN Value([i \in 1..Len(tar.data) |->
                           Sqrt(RMul(sumAll(MulCol(SqDiff(ref.data, tar.data[i]), weights.data)),
                                     RDiv(One, sumAll(weights.data))))])
              ELSE Value([i \in 1..Len(tar.data) |->
                           Sqrt(RDiv(sumAll(MulCol(SqDiff(ref.data, tar.data[i]),
                                                   weights.data[i])),
                                     sum1(weights.data)[i]))])

\* calcRMSD, lines 301-326, for arrays: the shape checks, then _calcRMSD.
calcRMSD(ref, tar, w) ==
    IF ndim(ref) # 2 \/ ref.shape[2] # 3
    THEN ValueError("calcRMSD")
    ELSE IF ndim(tar) \notin {2, 3} \/ Last(tar.shape) # 3
    THEN ValueError("calcRMSD")
    ELSE IF ref.shape # Last2(tar.shape)
    THEN ValueError("calcRMSD")
    ELSE IF /\ ~IsNone(w)
            /\ \/ ~ \/ (ndim(w) = 2 /\ w.shape[1] = ref.shape[1])
                    \/ (ndim(w) = 3 /\ First2(w.shape) = First2(tar.shape))
               \/ Last(w.shape) # 1
    THEN ValueError("calcRMSD")
    ELSE _calcRMSD(ref, tar, w)

\* ------------------------------------------------------------------------
\* State
\* ------------------------------------------------------------------------

VARIABLES
    mobile,     \* calcTransformation's mobile argument
    target,     \* the target argument of calcTransformation / calcRMSD / _superpose
    weights,    \* the weights argument: None or an array
    cov,        \* calcTransformation in progress: its centroids and matrix
    xform,      \* what calcTransformation returned (None: not called yet)
    reference,  \* calcRMSD's reference argument
    rmsd,       \* what calcRMSD returned (None: not called yet)
    mobs,       \* _superpose's stack of mobile frames (rewritten in place)
    movs,       \* _superpose's move buffer: None or a stack of frames
    order,      \* the order in which the frames of mobs are taken
    pos,        \* how many frames of order have been taken
    status,     \* of the _superpose call: idle, running, returned or an exception
    pre,        \* mobs and movs as they were when _superpose was called
    heap,       \* the ndarrays (and other arguments) that exist, by identity
    transformation, \* the Transformation object: its _rotation and _translation
    caller,     \* what the caller of the Transformation holds and has done
    mol,        \* an object with getCoordinates / setCoordinates
    applied,    \* what applyTransformation returned (None: not called yet)
    points,     \* calcRadiusOfGyration's coords argument
    rgyr,       \* what calcRadiusOfGyration returned (None: not called yet)
    movedFrame, \* the frame moved rigidly and what the call with it returned
    atoms,      \* calcADPAxes' atoms argument
    kwargs,     \* calcADPAxes' keyword arguments
    adp,        \* the calcADPAxes call: its position, arrays and result
    superposed, \* what superpose returned (None: not called yet)
    ag,         \* the AtomGroup alignCoordsets works on: its coordinate sets
                \* and the index of the active one
    align       \* the alignCoordsets call: its arguments, position and locals

solveVars == <<mobile, cov, xform, reference, rmsd>>
batchVars == <<mobs, movs, order, pos, status, pre>>
objectVars == <<heap, transformation, caller, mol, applied>>
gyrationVars == <<points, rgyr, movedFrame>>
axesVars == <<atoms, kwargs, adp>>
alignVars == <<ag, align>>
laterVars == <<objectVars, gyrationVars, axesVars, superposed, alignVars>>
vars == <<mobile, target, weights, cov, xform, reference, rmsd,
         mobs, movs, order, pos, status, pre,
         heap, transformation, caller, mol, applied,
         points, rgyr, movedFrame,
         atoms, kwargs, adp, superposed, ag, align>>

\* The variables of the calls that a specification does not make.
IdleSolve ==
    /\ mobile = None /\ target = None /\ weights = None
    /\ cov = None /\ xform = None /\ reference = None /\ rmsd = None
IdleBatch ==
    /\ mobs = None /\ movs = None /\ pre = None
    /\ order = <<>> /\ pos = 0 /\ status = "idle"
IdleObjects ==
    /\ heap = <<>> /\ transformation = None /\ caller = None
    /\ mol = None /\ applied = None
IdleGyration == points = None /\ rgyr = None /\ movedFrame = None
IdleAxes == atoms = None /\ kwargs = <<>> /\ adp = None
IdleAlign == ag = None /\ align = None
IdleLater == IdleObjects /\ IdleGyration /\ IdleAxes /\ superposed = None /\ IdleAlign

\* ------------------------------------------------------------------------
\* Inputs of the solver
\* ------------------------------------------------------------------------

QRow(v) == [a \in 1..Len(v) |-> Q(v[a])]
QRows(X) == [i \in 1..Len(X) |-> QRow(X[i])]

\* Four points: the tetrahedron of half-axes sc, flat when sc[3] = 0 and a
\* segment when sc[2] = sc[3] = 0.  The first half-axis is the longest.
Tetra(sc) ==
    << <<sc[1], sc[2], sc[3]>>, <<sc[1], 0 - sc[2], 0 - sc[3]>>,
       <<0 - sc[1], sc[2], 0 - sc[3]>>, <<0 - sc[1], 0 - sc[2], sc[3]>> >>

Scales == {sc \in {MaxScale} \X (0..MaxScale) \X (0..MaxScale) : sc[2] >= sc[3]}

\* What the target is stretched by along the first axis.
Stretches == {0, 1}

\* Orthogonal maps taking the points of the mobile set to those of the
\* target: rotations (determinant 1) and mirror images (determinant -1).
IsometrySeq ==
    << << <<1, 0, 0>>, <<0, 1, 0>>, <<0, 0, 1>> >>,          \* identity
       << <<0, 1, 0>>, <<-1, 0, 0>>, <<0, 0, 1>> >>,         \* quarter turn about z
       << <<0, 1, 0>>, <<0, 0, 1>>, <<1, 0, 0>> >>,          \* third turn about (1,1,1)
       << <<0, 1, 0>>, <<-1, 0, 0>>, <<0, 0, -1>> >> >>      \* mirror and quarter turn

Isometries == {IsometrySeq[k] : k \in 1..Len(IsometrySeq)}

MobileOffset == <<1, 1, 0>>
TargetOffset == <<2, 3, 0>>

\* (N, 3) and (N, 1) arrays
Coords(X) == Arr(<<Len(X), 3>>, X)
Weights(w) == Arr(<<Len(w), 1>>, [i \in 1..Len(w) |-> <<Q(w[i])>>])

\* No weights, uniform weights p, and the weights p, p, MaxWeight, MaxWeight.
WeightChoices ==
    {None} \cup UNION { {Weights(<<p, p, p, p>>), Weights(<<p, p, MaxWeight, MaxWeight>>)} :
                        p \in 1..MaxWeight }

IsUniform(w) == \A i \in 1..Len(w.data) : w.data[i] = w.data[1]

\* The three points (0,0,0), (1,0,0), (0,1,0) and their image under a
\* quarter turn about z followed by the translation (2,3,0).
ScenarioMobile == Coords(QRows(<< <<0, 0, 0>>, <<1, 0, 0>>, <<0, 1, 0>> >>))
ScenarioTarget == Coords(QRows(<< <<2, 3, 0>>, <<2, 4, 0>>, <<1, 3, 0>> >>))

SolverInputs ==
    { [mobile |-> Coords(AddRow(QRows(Tetra(sc)), QRow(MobileOffset))),
       target |-> Coords(AddRow(Dot(QRows(Tetra(<<sc[1] + st, sc[2], sc[3]>>)), QRows(iso)),
                                QRow(TargetOffset))),
       weights |-> w] :
      sc \in Scales, st \in Stretches, iso \in Isometries, w \in WeightChoices }
    \cup { [mobile |-> ScenarioMobile, target |-> ScenarioTarget, weights |-> None] }

\* ------------------------------------------------------------------------
\* calcTransformation(mobile, target, weights)
\* ------------------------------------------------------------------------

InitSolve ==
    /\ \E in \in SolverInputs :
          /\ mobile = in.mobile
          /\ target = in.target
          /\ weights = in.weights
    /\ cov = None
    /\ xform = None
    /\ reference = mobile
    /\ rmsd = None
    /\ mobs = None /\ movs = None /\ pre = None
    /\ order = <<>> /\ pos = 0 /\ status = "idle"
    /\ IdleLater

\* calcTransformation up to the decomposition: the shape checks, then the
\* centroids and the cross-covariance matrix.
CalcTransformationEnter ==
    /\ IsNone(xform) /\ IsNone(cov)
    /\ IF ShapesAgree(mobile, target, weights)
       THEN /\ cov' = [kind |-> "cov"] @@ Covariance(mobile.data, target.data, weights)
            /\ xform' = xform
       ELSE /\ xform' = ValueError("calcTransformation")
            /\ cov' = cov
    /\ UNCHANGED <<mobile, target, weights, reference, rmsd, batchVars, laterVars>>

\* The decomposition, the rotation and translation, and the return.
CalcTransformationReturn ==
    /\ IsNone(xform) /\ ~IsNone(cov)
    /\ xform' \in Rotations(cov)
    /\ UNCHANGED <<mobile, target, weights, cov, reference, rmsd, batchVars, laterVars>>

\* calcRMSD(reference, target, weights)
CalcRMSD ==
    /\ IsNone(rmsd)
    /\ rmsd' = calcRMSD(reference, target, weights)
    /\ UNCHANGED <<mobile, target, weights, cov, xform, reference, batchVars, laterVars>>

NextSolve == CalcTransformationEnter \/ CalcTransformationReturn \/ CalcRMSD

SpecSolve == InitSolve /\ [][NextSolve]_vars

\* ------------------------------------------------------------------------
\* Properties of the solver (SpecSolve)
\* ------------------------------------------------------------------------

Returned(x) == x.kind = "Transformation"

\* R is orthonormal with determinant +1.
IsRotation(R) == Dot(R, Transpose(R)) = Identity3 /\ det(R) = One

\* C1: when the cross-covariance matrix is not singular, with or without
\* weights, the rotation calcTransformation returns is orthonormal and its
\* determinant is +1.
C1_ProperRotation ==
    (Returned(xform) /\ det(cov.matrix) # Zero) => IsRotation(xform.rotation)

\* A mirror-image target (the determinant of the matrix is negative) has
\* been solved.
C1_Witness == Returned(xform) /\ RSign(det(cov.matrix)) < 0

\* C2: when the cross-covariance matrix is singular, the rotation
\* calcTransformation returns is still orthonormal with determinant +1.
C2_DegenerateRotation ==
    (Returned(xform) /\ det(cov.matrix) = Zero) => IsRotation(xform.rotation)

Tolerance == <<1, 1000000000>>
Close(x, y) == RLeq(RSub(x, y), Tolerance) /\ RLeq(RSub(y, x), Tolerance)
MatClose(A, B) == \A i \in 1..3 : \A j \in 1..3 : Close(A[i][j], B[i][j])

\* The quarter turn about z taking the scenario's mobile points to its
\* target points, for row vectors (x . R).
QuarterTurnZ == QRows(<< <<0, 1, 0>>, <<-1, 0, 0>>, <<0, 0, 1>> >>)

\* C3: for the three points (0,0,0), (1,0,0), (0,1,0) and their image under
\* a quarter turn about z and the translation (2,3,0), calcTransformation
\* returns the quarter-turn matrix (in either index convention, every entry
\* within 1e-9) and the translation (2,3,0).
C3_QuarterTurnScenario ==
    (Returned(xform) /\ mobile = ScenarioMobile /\ target = ScenarioTarget
        /\ IsNone(weights))
    => /\ \/ MatClose(xform.rotation, QuarterTurnZ)
          \/ MatClose(xform.rotation, Transpose(QuarterTurnZ))
       /\ xform.translation = QRow(<<2, 3, 0>>)

\* The weighted centroid sum(w x) / sum(w).
WeightedCentroid(X, w) ==
    [a \in 1..3 |->
        RDiv(RSum([i \in 1..Len(X) |-> RMul(w[i][1], X[i][a])]),
             RSum([i \in 1..Len(w) |-> w[i][1]]))]

\* Entry (a, b) of (tar_centered * w)^T (mob_centered * w).
WeightedProducts(T, M, w, tc, mc) ==
    [a \in 1..3 |-> [b \in 1..3 |->
        RSum([i \in 1..Len(w) |->
            RMul(RMul(w[i][1], RSub(T[i][a], tc[a])),
                 RMul(w[i][1], RSub(M[i][b], mc[b])))])]]

SumOfSquares(w) == RSum([i \in 1..Len(w) |-> RMul(w[i][1], w[i][1])])
SquareOfSum(w) ==
    RMul(RSum([i \in 1..Len(w) |-> w[i][1]]), RSum([i \in 1..Len(w) |-> w[i][1]]))

CovarianceIs(divisor) ==
    /\ cov.mob_com = WeightedCentroid(mobile.data, weights.data)
    /\ cov.tar_com = WeightedCentroid(target.data, weights.data)
    /\ cov.matrix = MatDiv(WeightedProducts(target.data, mobile.data, weights.data,
                                            cov.tar_com, cov.mob_com),
                           divisor)

\* C4, as stated: with weights, the centroids are sum(w x) / sum(w) and the
\* cross-covariance matrix is (tar_centered * w)^T (mob_centered * w)
\* divided by the square of the sum of the weights.
C4_DividedBySquareOfSum ==
    (~IsNone(cov) /\ ~IsNone(weights)) => CovarianceIs(SquareOfSum(weights.data))

\* C4, amended: with weights, the centroids are sum(w x) / sum(w) and the
\* cross-covariance matrix is (tar_centered * w)^T (mob_centered * w)
\* divided by the sum of the squared weights.
C4_DividedBySumOfSquares ==
    (~IsNone(cov) /\ ~IsNone(weights)) => CovarianceIs(SumOfSquares(weights.data))

\* A weighted covariance has been computed from unequal weights, and is not
\* the zero matrix.
C4_Witness ==
    /\ ~IsNone(cov) /\ ~IsNone(weights) /\ ~IsUniform(weights)
    /\ \E a \in 1..3 : \E b \in 1..3 : cov.matrix[a][b] # Zero

\* C10: with uniform weights (every weight the same non-zero constant),
\* calcRMSD returns what it returns without weights, and the rotations and
\* translations calcTransformation can return (one for each result of svd)
\* are those it can return without weights.
C10_UniformWeights ==
    (~IsNone(weights) /\ IsUniform(weights))
    => /\ rmsd.kind = "value" => rmsd = calcRMSD(reference, target, None)
       /\ (~IsNone(cov) /\ IsNone(xform)) =>
             Rotations(cov) = _calcTransformation(mobile.data, target.data, None)

\* For uniform weights other than 1 and a target that is not a rigid image
\* of the mobile points, calcRMSD has returned and calcTransformation is
\* about to.
C10_Witness ==
    /\ ~IsNone(weights) /\ IsUniform(weights) /\ weights.data[1][1] # One
    /\ ~IsNone(cov) /\ IsNone(xform) /\ Rotations(cov) # {}
    /\ rmsd.kind = "value" /\ rmsd.value.radicand # Zero

\* ------------------------------------------------------------------------
\* _superpose(mobs, tar, weights, movs)
\* ------------------------------------------------------------------------

MaxFrames == 2

\* stack[i]: the frame the loop reads at index i (1-based here).
FrameFirst(stack, i) == stack.data[1]
Frame(stack, i) == stack.data[i]

Stack(frames) == Arr(<<Len(frames), Len(frames[1]), 3>>, frames)
SetFrame(stack, i, frame) == [stack EXCEPT !.data[i] = frame]

\* The body of the loop up to the rotation: the centroid and the centred
\* points of the frame, and every rotation the decomposition may give.
\* The weights take no part.
FrameRotations(mob, tar_org) ==
    UNION { UNION { { [mob_com |-> c.mob_com, mob_org |-> c.mob_org,
                       rotation |-> RotationOf(f, Id)] :
                      f \in {g \in svd(c.matrix) : Representable(g, Id)} } :
                    Id \in {ReflectionFix(c.matrix)} } :
            c \in { [mob_com |-> mean0(mob),
                     mob_org |-> SubRow(mob, mean0(mob)),
                     matrix |-> DotT(tar_org, SubRow(mob, mean0(mob)))] } }

\* The exception pass i of the loop ends with, or "none".
FrameError(bs, vs, tar, i) ==
    IF Len(Frame(bs, i)) # Len(tar) THEN "ValueError"      \* np.dot(tar_org.T, mob_org)
    ELSE IF IsNone(vs) THEN "none"
    ELSE IF i > Len(vs.data) THEN "IndexError"             \* movs[i]
    ELSE "none"

\* A pass that writes the superposed frame into mobs whether or not there
\* is a move buffer.
FramePassIntoMobs(bs, vs, tar, i) ==
    IF FrameError(bs, vs, tar, i) # "none" THEN {}
    ELSE UNION { { <<SetFrame(bs, i, AddRow(Dot(r.mob_org, r.rotation), tar_com)), vs>> :
                   r \in FrameRotations(Frame(bs, i), SubRow(tar, tar_com)) } :
                 tar_com \in {mean0(tar)} }

\* Pass i of the loop when it ends without an exception: the pairs
\* <<mobs, movs>> it may leave.
FramePass(bs, vs, tar, i) ==
    IF FrameError(bs, vs, tar, i) # "none" THEN {}
    ELSE UNION { { IF IsNone(vs)
                   THEN <<SetFrame(bs, i, AddRow(Dot(r.mob_org, r.rotation), tar_com)), vs>>
                   ELSE <<bs, SetFrame(vs, i, AddRow(Dot(Frame(vs, i), r.rotation),
                                                     VecSub(tar_com, VecDot(r.mob_com, r.rotation))))>> :
                   r \in FrameRotations(Frame(bs, i), SubRow(tar, tar_com)) } :
                 tar_com \in {mean0(tar)} }

\* The pairs <<mobs, movs>> the loop may end with when it takes the frames
\* of seq one after the other and no pass raises.
RECURSIVE Completions(_, _, _, _)
Completions(bs, vs, tar, seq) ==
    IF seq = <<>> THEN {<<bs, vs>>}
    ELSE UNION { Completions(s[1], s[2], tar, Tail(seq)) : s \in FramePass(bs, vs, tar, Head(seq)) }

IndexOrder(M) == [k \in 1..M |-> k]
Orders(M) == {o \in [1..M -> 1..M] : \A a \in 1..M : \E k \in 1..M : o[k] = a}

\* Frames of four points, one of three points, and frames of five points
\* for the move buffer (the points of a frame and one more).
BatchShape == <<MaxScale, 1, 1>>
FourPoints(iso) == AddRow(Dot(QRows(Tetra(BatchShape)), QRows(iso)), QRow(MobileOffset))
FivePoints(iso) == Append(FourPoints(iso), QRow(<<0, 0, MaxScale>>))
\* The stacks of the call: runs of M successive turns (the first three
\* isometries), from the k-th on.
Turns == Len(IsometrySeq) - 1
Stacks ==
    UNION { { [i \in 1..M |-> IsometrySeq[k + i - 1]] : k \in 1..(Turns - M + 1) } :
            M \in 1..MaxFrames }

\* Targets: four points that no rigid motion of a frame reaches (the first
\* half-axis is longer by one), and the three points of the scenario.
BatchTargets ==
    { AddRow(QRows(Tetra(<<BatchShape[1] + 1, BatchShape[2], BatchShape[3]>>)),
             QRow(TargetOffset)),
      ScenarioTarget.data }

BatchWeights == {None, Weights(<<1, 1, MaxWeight, MaxWeight>>)}

\* No move buffer, a copy of the mobile stack, that copy without its last
\* frame, and a stack of as many frames of five points.
MoveBuffers(isos) ==
    {None, Stack([i \in 1..Len(isos) |-> FourPoints(isos[i])]),
           Stack([i \in 1..Len(isos) |-> FivePoints(isos[i])])}
    \cup (IF Len(isos) > 1
          THEN {Stack([i \in 1..(Len(isos) - 1) |-> FourPoints(isos[i])])}
          ELSE {})

InitBatch ==
    /\ \E isos \in Stacks :
          /\ mobs = Stack([i \in 1..Len(isos) |-> FourPoints(isos[i])])
          /\ movs \in MoveBuffers(isos)
          /\ order \in Orders(Len(isos))
    /\ target \in {Coords(t) : t \in BatchTargets}
    /\ weights \in BatchWeights
    /\ pos = 0
    /\ status = "running"
    /\ pre = [mobs |-> mobs, movs |-> movs]
    /\ mobile = None /\ cov = None /\ xform = None /\ reference = None /\ rmsd = None
    /\ IdleLater

\* One pass of the loop of _superpose, for the frame order[pos + 1]; the
\* call returns after the last pass.  An exception ends the call.
SuperposeFrame ==
    /\ status = "running"
    /\ LET i == order[pos + 1] IN
       IF FrameError(mobs, movs, target.data, i) = "ValueError"
       THEN /\ status' = "ValueError"
            /\ UNCHANGED <<mobs, movs, pos>>
       ELSE IF FrameError(mobs, movs, target.data, i) = "IndexError"
       THEN \* the decomposition has returned when movs[i] is read
            /\ FrameRotations(Frame(mobs, i), SubRow(target.data, mean0(target.data))) # {}
            /\ status' = "IndexError"
            /\ UNCHANGED <<mobs, movs, pos>>
       ELSE /\ \E s \in FramePass(mobs, movs, target.data, i) :
                  mobs' = s[1] /\ movs' = s[2]
            /\ pos' = pos + 1
            /\ status' = IF pos + 1 = Len(order) THEN "returned" ELSE "running"
    /\ UNCHANGED <<target, weights, order, pre, solveVars, laterVars>>

NextBatch == SuperposeFrame

SpecBatch == InitBatch /\ [][NextBatch]_vars

\* ------------------------------------------------------------------------
\* Properties of the batch engine (SpecBatch)
\* ------------------------------------------------------------------------

Failed == status \in {"ValueError", "IndexError"}

\* The frames the loop has taken without an exception.
Taken == {order[k] : k \in 1..pos}

\* What the single-pair solver gives for frame i of the call's mobile
\* stack, applied to that frame or, with a move buffer, to frame i of it.
Solved(i) ==
    { _applyTransformation(t, IF IsNone(pre.movs) THEN pre.mobs.data[i] ELSE pre.movs.data[i]) :
      t \in _calcTransformation(pre.mobs.data[i], target.data, weights) }

\* The solver's answer for frame i is known in full: the decomposition of
\* its matrix is among those of svd and, with weights, the matrix has a
\* positive determinant (its rotation is then the only optimum).
Unambiguous(i) ==
    /\ Solved(i) # {}
    /\ IsNone(weights) \/
           RSign(det(Covariance(pre.mobs.data[i], target.data, weights).matrix)) > 0

Slot(i) == IF IsNone(movs) THEN mobs.data[i] ELSE movs.data[i]

\* C5: with or without weights, what _superpose writes to output slot i is
\* what the transformation of the single-pair solver for (mobs[i], tar,
\* weights) makes of mobs[i], or of movs[i] when a move buffer is given.
C5_BatchIsSolverPerFrame ==
    \A i \in Taken : Unambiguous(i) => Slot(i) \in Solved(i)

\* C6: taking the frames in any order leaves what taking them in index
\* order leaves: from the call's arguments the possible final stacks are
\* the same, and the stacks a call returns with are among those of index
\* order.
C6_OrderIrrelevant ==
    /\ (status = "running" /\ pos = 0 /\ order # IndexOrder(Len(order))) =>
          Completions(mobs, movs, target.data, order)
             = Completions(mobs, movs, target.data, IndexOrder(Len(order)))
    /\ status = "returned" =>
          <<mobs, movs>> \in Completions(pre.mobs, pre.movs, target.data, IndexOrder(Len(order)))

\* A call that took its frames out of index order has returned and has
\* rewritten its output stack.
C6_Witness ==
    /\ status = "returned"
    /\ order # IndexOrder(Len(order))
    /\ <<mobs, movs>> # <<pre.mobs, pre.movs>>

\* C7: when a call in index order fails on the shapes of its arguments,
\* every frame of mobs and of movs is as it was before the call.
C7_FailsBeforeAnyWrite ==
    (Failed /\ order = IndexOrder(Len(order))) => (mobs = pre.mobs /\ movs = pre.movs)

\* ------------------------------------------------------------------------
\* calcRMSD(reference, target, weights) over arrays of every shape
\* ------------------------------------------------------------------------

MaxAtoms == 3
MaxConfs == 3

\* An array of the given shape whose entries are small integers that depend
\* on every index and on seed; entries of a weight array are positive.
Strides == <<1, 3, 5, 11>>

RECURSIVE Fill(_, _, _)
Fill(shape, seed, positive) ==
    IF shape = <<>>
    THEN Q(IF positive THEN 1 + (((seed * seed) % 7) % MaxWeight) ELSE (seed * seed) % 7)
    ELSE [i \in 1..shape[1] |-> Fill(Tail(shape), seed + i * Strides[Len(shape)], positive)]

Filled(shape, seed, positive) == Arr(shape, Fill(shape, seed, positive))

\* Shapes: (N,3) and what is not (N,3); ([M,]N,3) and what is not;
\* (N,1), (M,N,1) and what is neither.
ReferenceShapes ==
    {<<n, 3>> : n \in 1..MaxAtoms} \cup {<<3>>, <<MaxAtoms, 2>>, <<1, MaxAtoms, 3>>}
TargetShapes ==
    {<<n, 3>> : n \in 1..MaxAtoms}
    \cup {<<m, n, 3>> : m \in 1..MaxConfs, n \in 1..MaxAtoms}
    \cup {<<3>>, <<MaxAtoms, 2>>, <<1, MaxAtoms, 2>>, <<1, 1, MaxAtoms, 3>>}
WeightShapes ==
    {<<n, 1>> : n \in 1..MaxAtoms}
    \cup {<<m, n, 1>> : m \in 1..MaxConfs, n \in 1..MaxAtoms}
    \cup {<<MaxAtoms>>, <<MaxAtoms, 2>>, <<1, MaxAtoms, 2>>, <<1, 1, MaxAtoms, 1>>}

\* Reference [[0,0,0],[2,0,0]] against a target of zeros.
PairReference == Coords(QRows(<< <<0, 0, 0>>, <<2, 0, 0>> >>))
PairTarget == Coords(QRows(<< <<0, 0, 0>>, <<0, 0, 0>> >>))

WeightsOf(seed) == {None} \cup {Filled(ws, seed, TRUE) : ws \in WeightShapes}

RMSDInputs ==
    UNION { { [reference |-> Filled(rs, 0, FALSE), target |-> Filled(ts, seed, FALSE),
               weights |-> w] :
              rs \in ReferenceShapes, ts \in TargetShapes, w \in WeightsOf(seed) } :
            seed \in 1..2 }
    \cup { [reference |-> PairReference, target |-> PairTarget, weights |-> None] }

InitRMSD ==
    /\ \E in \in RMSDInputs :
          /\ reference = in.reference
          /\ target = in.target
          /\ weights = in.weights
    /\ rmsd = None
    /\ mobile = None /\ cov = None /\ xform = None
    /\ mobs = None /\ movs = None /\ pre = None
    /\ order = <<>> /\ pos = 0 /\ status = "idle"
    /\ IdleLater

NextRMSD == CalcRMSD

SpecRMSD == InitRMSD /\ [][NextRMSD]_vars

\* ------------------------------------------------------------------------
\* Properties of calcRMSD (SpecRMSD)
\* ------------------------------------------------------------------------

\* Squared distance of two points, and the mean of the squared distances
\* of the atoms of ref and t under the weights w (a sequence of numbers).
Dist2(p, q) == RSum([a \in 1..3 |-> RMul(RSub(p[a], q[a]), RSub(p[a], q[a]))])
MeanSquare(ref, t, w) ==
    RDiv(RSum([n \in 1..Len(ref) |-> RMul(w[n], Dist2(ref[n], t[n]))]),
         RSum([n \in 1..Len(ref) |-> w[n]]))

Ones(N) == [n \in 1..N |-> One]
Column(W) == [n \in 1..Len(W) |-> W[n][1]]

IsAtoms(a) == ndim(a) = 2 /\ a.shape[2] = 3
IsStack(a) == ndim(a) = 3 /\ a.shape[3] = 3

\* The shapes calcRMSD is specified for.
SingleShapes ==
    /\ IsAtoms(reference) /\ target.shape = reference.shape
    /\ IsNone(weights) \/ weights.shape = <<reference.shape[1], 1>>
StackShapes ==
    /\ IsAtoms(reference) /\ IsStack(target)
    /\ <<target.shape[2], target.shape[3]>> = reference.shape
    /\ \/ IsNone(weights)
       \/ weights.shape = <<reference.shape[1], 1>>
       \/ weights.shape = <<target.shape[1], reference.shape[1], 1>>

\* The weights of frame m as a sequence of numbers.
FrameWeights(m) ==
    IF IsNone(weights) THEN Ones(reference.shape[1])
    ELSE IF ndim(weights) = 2 THEN Column(weights.data)
    ELSE Column(weights.data[m])

\* C8: for an (N,3) target calcRMSD returns the square root of the mean
\* squared distance of the atoms (divided by N, or weighted and divided by
\* the sum of the weights); for an (M,N,3) target the array of these per
\* frame, with shared (N,1) weights or with frame i's own weights and
\* their sum; [[0,0,0],[2,0,0]] against zeros gives sqrt(2).
C8_RMSDFormula ==
    rmsd.kind # "None" =>
        /\ SingleShapes =>
              rmsd = Value(Sqrt(MeanSquare(reference.data, target.data, FrameWeights(1))))
        /\ StackShapes =>
              rmsd = Value([m \in 1..target.shape[1] |->
                              Sqrt(MeanSquare(reference.data, target.data[m], FrameWeights(m)))])
        /\ (reference = PairReference /\ target = PairTarget /\ IsNone(weights)) =>
              rmsd = Value(Sqrt(Q(2)))

\* An RMSD has been returned for a stack of frames of several atoms with
\* per-frame weights that differ from atom to atom and whose sums differ
\* from frame to frame.
C8_Witness ==
    /\ rmsd.kind = "value" /\ StackShapes /\ reference.shape[1] > 1
    /\ ~IsNone(weights) /\ ndim(weights) = 3
    /\ \E m \in 1..target.shape[1] :
          /\ RSum(FrameWeights(m)) # RSum(FrameWeights(1))
          /\ \E n \in 1..reference.shape[1] : FrameWeights(m)[n] # FrameWeights(m)[1]
          /\ rmsd.value[m].radicand # Zero

\* C9: calcRMSD computes a result for the shapes it is specified for and
\* for no others: any other combination of shapes is rejected by the
\* checks of calcRMSD, before anything is computed.
C9_ShapesChecked ==
    rmsd.kind # "None" =>
        IF SingleShapes \/ StackShapes
        THEN rmsd.kind = "value"
        ELSE rmsd = ValueError("calcRMSD")

\* ------------------------------------------------------------------------
\* class Transformation and applyTransformation
\* ------------------------------------------------------------------------

\* How many arrays the accessors of the Transformation may hand out.
MaxReturned == 1
MaxPoked == 1

TypeError(where) == [kind |-> "TypeError", where |-> where]
IndexError(where) == [kind |-> "IndexError", where |-> where]

\* A Python list, which is not an ndarray.
PyList == [kind |-> "list"]
Raised(x) == x.kind \in {"TypeError", "IndexError", "ValueError"}
IsArray(a) == a.kind = "ndarray"

Vector(v) == Arr(<<Len(v)>>, QRow(v))

\* What the caller starts with: two (3,3) arrays, a (2,3) and a (3,2)
\* array, two (3,) arrays, a (2,) array and a list.
CallerArrays ==
    << Coords(QRows(IsometrySeq[2])), Coords(QRows(IsometrySeq[3])),
       Arr(<<3, 2>>, QRows(<< <<1, 0>>, <<0, 1>>, <<2, 2>> >>)),
       Vector(<<2, 3, 0>>),
       PyList >>

\* The references to the arrays the caller made itself; the arguments of the
\* constructor and of the setters are among them.
Own == 1..Len(CallerArrays)

MolCoordinates ==
    { Coords(QRows(<< <<1, 0, 0>>, <<0, 2, 0>> >>)),
      Arr(<<3, 2>>, QRows(<< <<1, 0>>, <<0, 1>>, <<2, 2>> >>)) }

\* A check that lets every 2-d array pass as a rotation.
ValidRotationAnyMatrix(a) == IsArray(a) /\ ndim(a) = 2

\* setRotation's and setTranslation's checks.
ValidRotation(a) == IsArray(a) /\ a.shape = <<3, 3>>
ValidTranslation(a) == IsArray(a) /\ a.shape = <<3>>

\* The object: its two slots hold references (indices into heap).
TransformationObject(r, t) ==
    [kind |-> "Transformation", _rotation |-> r, _translation |-> t]

\* ndarray.copy(): a new array with the same content.
Copy(h, id) == [heap |-> Append(h, h[id]), id |-> Len(h) + 1]

\* An accessor that returns the slot's array itself.
getRotationNoCopy(h, t) == [heap |-> h, id |-> t._rotation]

\* getRotation and getTranslation: the heap after the call and the
\* reference returned.
getRotation(h, t) == Copy(h, t._rotation)
getTranslation(h, t) == Copy(h, t._translation)

\* ge4x4Matrix: np.eye(4) with the rotation in its top left and the
\* translation in its last column.
ge4x4Matrix(h, t) ==
    LET R == h[t._rotation].data
        v == h[t._translation].data
        fourby4 == [i \in 1..4 |-> [j \in 1..4 |->
                       IF i <= 3 /\ j <= 3 THEN R[i][j]
                       ELSE IF i <= 3 THEN v[i]
                       ELSE IF j = 4 THEN One ELSE Zero]]
    IN  [heap |-> Append(h, Arr(<<4, 4>>, fourby4)), id |-> Len(h) + 1]

\* An object with getCoordinates and setCoordinates; calls counts the calls
\* of setCoordinates.
Atomic(coordinates) == [kind |-> "Atomic", coordinates |-> coordinates, calls |-> 0]
setCoordinates(m, coordinates) ==
    [m EXCEPT !.coordinates = coordinates, !.calls = @ + 1]

\* applyTransformation(transformation, coords): what it returns or raises
\* and the object afterwards.  x is the argument: an array, an Atomic or
\* anything else.
applyTransformation(h, t, x) ==
    LET isMol == ~IsArray(x)
        coords == IF isMol THEN x.coordinates ELSE x
        moved == Arr(coords.shape,
                     _applyTransformation(Transformation(h[t._rotation].data,
                                                         h[t._translation].data),
                                          coords.data))
    IN  IF isMol /\ x.kind # "Atomic"
        THEN [result |-> TypeError("applyTransformation"), mol |-> x]
        ELSE IF ndim(coords) < 2
        THEN [result |-> IndexError("applyTransformation"), mol |-> x]
        ELSE IF coords.shape[2] # 3
        THEN [result |-> ValueError("applyTransformation"), mol |-> x]
        ELSE IF isMol
        THEN [result |-> [kind |-> "mol"], mol |-> setCoordinates(x, moved)]
        ELSE [result |-> Value(moved), mol |-> x]

\* An array with its first entry changed.
Poke(a) ==
    IF ndim(a) = 1 THEN [a EXCEPT !.data[1] = RAdd(@, One)]
    ELSE [a EXCEPT !.data[1][1] = RAdd(@, One)]

\* The rotation and translation arrays as the slots of the object hold them.
Stored(h, t) == [rotation |-> h[t._rotation], translation |-> h[t._translation]]

InitObjects ==
    /\ heap = CallerArrays
    /\ transformation = None
    /\ caller = [call |-> "none", args |-> <<>>, raised |-> FALSE, result |-> 0,
                 returned |-> {}, poked |-> {}]
    /\ mol \in {Atomic(c) : c \in MolCoordinates}
    /\ applied = None
    /\ IdleSolve /\ IdleBatch /\ IdleGyration /\ IdleAxes
    /\ superposed = None /\ IdleAlign

Called(name, args, raised, result) ==
    [caller EXCEPT !.call = name, !.args = args, !.raised = raised, !.result = result]

\* Transformation(rotation, translation): __init__ sets both slots through
\* the setters; when one of them raises, no object comes into being.
TransformationInit ==
    /\ IsNone(transformation) /\ IsNone(applied)
    /\ \E r \in Own, t \in Own :
          IF ValidRotation(heap[r]) /\ ValidTranslation(heap[t])
          THEN /\ transformation' = TransformationObject(r, t)
               /\ caller' = Called("__init__", <<r, t>>, FALSE, 0)
          ELSE /\ transformation' = transformation
               /\ caller' = Called("__init__", <<r, t>>, TRUE, 0)
    /\ UNCHANGED <<heap, mol, applied, target, weights, solveVars, batchVars, gyrationVars, axesVars,
                 superposed, alignVars>>

\* t.setRotation(rotation)
SetRotation ==
    /\ ~IsNone(transformation) /\ IsNone(applied)
    /\ \E r \in Own :
          IF ValidRotation(heap[r])
          THEN /\ transformation' = [transformation EXCEPT !._rotation = r]
               /\ caller' = Called("setRotation", <<r>>, FALSE, 0)
          ELSE /\ transformation' = transformation
               /\ caller' = Called("setRotation", <<r>>, TRUE, 0)
    /\ UNCHANGED <<heap, mol, applied, target, weights, solveVars, batchVars, gyrationVars, axesVars,
                 superposed, alignVars>>

\* t.setTranslation(translation)
SetTranslation ==
    /\ ~IsNone(transformation) /\ IsNone(applied)
    /\ \E t \in Own :
          IF ValidTranslation(heap[t])
          THEN /\ transformation' = [transformation EXCEPT !._translation = t]
               /\ caller' = Called("setTranslation", <<t>>, FALSE, 0)
          ELSE /\ transformation' = transformation
               /\ caller' = Called("setTranslation", <<t>>, TRUE, 0)
    /\ UNCHANGED <<heap, mol, applied, target, weights, solveVars, batchVars, gyrationVars, axesVars,
                 superposed, alignVars>>

\* An accessor call whose outcome (heap and reference) is r.
Returns(name, r) ==
    /\ heap' = r.heap
    /\ caller' = [Called(name, <<>>, FALSE, r.id) EXCEPT !.returned = @ \cup {r.id}]
    /\ UNCHANGED <<transformation, mol, applied, target, weights, solveVars, batchVars, gyrationVars, axesVars,
                 superposed, alignVars>>

CanReturn ==
    /\ ~IsNone(transformation) /\ IsNone(applied)
    /\ Cardinality(caller.returned) < MaxReturned

GetRotation == CanReturn /\ Returns("getRotation", getRotation(heap, transformation))
GetTranslation == CanReturn /\ Returns("getTranslation", getTranslation(heap, transformation))
Ge4x4Matrix == CanReturn /\ Returns("ge4x4Matrix", ge4x4Matrix(heap, transformation))

\* The caller writes into an array an accessor returned.
MutateReturned ==
    /\ IsNone(applied) /\ Cardinality(caller.poked) < MaxPoked
    /\ \E id \in caller.returned \ caller.poked :
          /\ heap' = [heap EXCEPT ![id] = Poke(@)]
          /\ caller' = [caller EXCEPT !.poked = @ \cup {id}]
    /\ UNCHANGED <<transformation, mol, applied, target, weights, solveVars, batchVars, gyrationVars, axesVars,
                 superposed, alignVars>>

\* The caller writes into an array it has passed to the constructor or to a
\* setter and that the object refers to.
MutateArgument ==
    /\ IsNone(applied) /\ Cardinality(caller.poked) < MaxPoked
    /\ ~IsNone(transformation)
    /\ \E id \in {transformation._rotation, transformation._translation} \ caller.poked :
          /\ heap' = [heap EXCEPT ![id] = Poke(@)]
          /\ caller' = [caller EXCEPT !.poked = @ \cup {id}]
    /\ UNCHANGED <<transformation, mol, applied, target, weights, solveVars, batchVars, gyrationVars, axesVars,
                 superposed, alignVars>>

\* t.apply(x) = applyTransformation(t, x), for x an array or a list the
\* caller holds (x > 0) or the object mol (x = 0).
Apply ==
    /\ ~IsNone(transformation) /\ IsNone(applied)
    /\ \E x \in 0..Len(heap) :
          LET arg == IF x = 0 THEN mol ELSE heap[x]
              r == applyTransformation(heap, transformation, arg)
          IN  /\ applied' = r.result
              /\ mol' = IF x = 0 THEN r.mol ELSE mol
              /\ caller' = Called("apply", <<x>>, Raised(r.result), 0)
    /\ UNCHANGED <<heap, transformation, target, weights, solveVars, batchVars, gyrationVars, axesVars,
                 superposed, alignVars>>

NextObjects ==
    \/ TransformationInit \/ SetRotation \/ SetTranslation
    \/ GetRotation \/ GetTranslation \/ Ge4x4Matrix
    \/ MutateReturned \/ MutateArgument
    \/ Apply

SpecObjects == InitObjects /\ [][NextObjects]_vars

\* ---------------------------------------------------------------------
\* Properties of class Transformation and applyTransformation

IsThreeByThree(a) ==
    a.kind = "ndarray" /\ Len(a.shape) = 2 /\ a.shape[1] = 3 /\ a.shape[2] = 3
IsLengthThree(a) == a.kind = "ndarray" /\ Len(a.shape) = 1 /\ a.shape[1] = 3

\* What the last call was given: whether the constructor or setter had to
\* reject it.
Rejectable ==
    CASE caller.call = "__init__" ->
             ~IsThreeByThree(heap[caller.args[1]])
             \/ ~IsLengthThree(heap[caller.args[2]])
      [] caller.call = "setRotation" -> ~IsThreeByThree(heap[caller.args[1]])
      [] caller.call = "setTranslation" -> ~IsLengthThree(heap[caller.args[1]])
      [] OTHER -> FALSE

SetterCalled == caller.call \in {"__init__", "setRotation", "setTranslation"}

HoldsValid ==
    ~IsNone(transformation) =>
        /\ IsThreeByThree(heap[transformation._rotation])
        /\ IsLengthThree(heap[transformation._translation])

\* C11: a Transformation only ever holds a (3,3) array as rotation and a
\* (3,) array as translation; the constructor and the two setters raise
\* exactly for the arguments that are anything else, an accepted argument
\* is what the slot holds afterwards, and a call that raised leaves both
\* slots as they were.
C11_OnlyValidSlots ==
    [][ /\ HoldsValid'
        /\ SetterCalled' => (caller'.raised <=> Rejectable')
        /\ (SetterCalled' /\ caller'.raised /\ caller' # caller)
               => transformation' = transformation
        /\ (caller'.call = "setRotation" /\ ~caller'.raised /\ caller' # caller)
               => /\ transformation'._rotation = caller'.args[1]
                  /\ transformation'._translation = transformation._translation
        /\ (caller'.call = "setTranslation" /\ ~caller'.raised /\ caller' # caller)
               => /\ transformation'._translation = caller'.args[1]
                  /\ transformation'._rotation = transformation._rotation
      ]_vars

\* A setter has rejected a matrix that is not 3x3 on an existing object.
C11_Witness ==
    /\ ~IsNone(transformation)
    /\ caller.call = "setRotation" /\ caller.raised
    /\ IsArray(heap[caller.args[1]]) /\ ndim(heap[caller.args[1]]) = 2

Accessors == {"getRotation", "getTranslation", "ge4x4Matrix"}

\* The 4x4 matrix of a rotation and a translation: the rotation top left,
\* the translation as last column, (0, 0, 0, 1) as last row.
FourByFour(R, v) ==
    << <<R[1][1], R[1][2], R[1][3], v[1]>>,
       <<R[2][1], R[2][2], R[2][3], v[2]>>,
       <<R[3][1], R[3][2], R[3][3], v[3]>>,
       <<Zero, Zero, Zero, One>> >>

\* What an accessor has to hand out for the arrays the slots hold.
Expected(name, s) ==
    CASE name = "getRotation" -> s.rotation
      [] name = "getTranslation" -> s.translation
      [] name = "ge4x4Matrix" ->
             Arr(<<4, 4>>, FourByFour(s.rotation.data, s.translation.data))

\* C12: an accessor hands out a new array that no slot refers to and that
\* holds what the slots hold, and leaves the object alone; a write of the
\* caller into an array an accessor returned changes neither slot nor the
\* arrays the slots refer to, so later accessors and apply still see them.
C12_ReturnsCopies ==
    [][ /\ caller'.returned # caller.returned =>
            /\ caller'.call \in Accessors
            /\ caller'.result > Len(heap)
            /\ caller'.result \notin {transformation._rotation,
                                      transformation._translation}
            /\ heap'[caller'.result]
                   = Expected(caller'.call, Stored(heap, transformation))
            /\ \A id \in 1..Len(heap) : heap'[id] = heap[id]
            /\ transformation' = transformation
        /\ (caller'.poked \ caller.poked) \cap caller.returned # {} =>
            /\ transformation' = transformation
            /\ Stored(heap', transformation) = Stored(heap, transformation)
      ]_vars

\* The caller wrote into an array it got from an accessor and then applied
\* the transformation to an array.
C12_Witness ==
    /\ caller.returned \cap caller.poked # {}
    /\ caller.call = "apply" /\ applied.kind = "value"

\* The image of the point x: x*R + t with x a row vector.
PointImage(x, R, t) ==
    [j \in 1..3 |->
        RAdd(RAdd(RAdd(RMul(x[1], R[1][j]), RMul(x[2], R[2][j])),
                  RMul(x[3], R[3][j])), t[j])]

Images(X, s) ==
    Arr(X.shape, [i \in 1..Len(X.data) |->
                     PointImage(X.data[i], s.rotation.data, s.translation.data)])

HasThreeColumns(a) == Len(a.shape) = 2 /\ a.shape[2] = 3

\* C13: apply maps every row x of the coordinates to x*R + t.  For an
\* (N,3) array it returns the array of the images and touches no object;
\* for an object with coordinates it calls setCoordinates once with the
\* images and returns the object; with coordinates that have no three
\* columns it raises and setCoordinates is not called.  The arrays and the
\* transformation are as before in every case.
C13_AppliesRowConvention ==
    [][ (caller'.call = "apply" /\ applied' # applied) =>
            LET x == caller'.args[1]
                s == Stored(heap, transformation)
            IN  /\ heap' = heap /\ transformation' = transformation
                /\ (x > 0 /\ IsArray(heap[x]) /\ HasThreeColumns(heap[x])) =>
                       /\ applied' = Value(Images(heap[x], s))
                       /\ mol' = mol
                /\ (x = 0 /\ HasThreeColumns(mol.coordinates)) =>
                       /\ applied'.kind = "mol"
                       /\ mol'.calls = mol.calls + 1
                       /\ mol'.coordinates = Images(mol.coordinates, s)
                /\ (x = 0 /\ ~HasThreeColumns(mol.coordinates)) =>
                       /\ Raised(applied') /\ caller'.raised
                       /\ mol' = mol
                /\ (x > 0 /\ IsArray(heap[x]) /\ ~HasThreeColumns(heap[x])) =>
                       /\ Raised(applied') /\ caller'.raised
                       /\ mol' = mol
      ]_vars

\* The transformation was applied to an object: setCoordinates was called.
C13_Witness ==
    /\ caller.call = "apply" /\ caller.args = <<0>>
    /\ applied.kind = "mol" /\ mol.calls = 1

\* ------------------------------------------------------------------------
\* calcRadiusOfGyration
\* ------------------------------------------------------------------------

\* All entries of the data of an array with nd axes, in index order.
RECURSIVE Flat(_, _)
Flat(data, nd) ==
    IF nd = 1 THEN data
    ELSE IF Len(data) = 0 THEN <<>>
    ELSE Flat(data[1], nd - 1) \o Flat(Tail(data), nd)

\* weights.flatten()
flatten(a) == Arr(<<Len(Flat(a.data, ndim(a)))>>, Flat(a.data, ndim(a)))

\* X * w for X of shape (N, k) and w of shape (L,): w runs along the last
\* axis of X, which numpy allows when L is k or 1.
CanMulLast(X, w) == Len(w) = Len(X[1]) \/ Len(w) = 1
MulLast(X, w) ==
    [i \in 1..Len(X) |-> [a \in Cols(X) |->
        RMul(X[i][a], IF Len(w) = 1 THEN w[1] ELSE w[a])]]

\* ((X - com)**2).sum(1)
SquaredDistances(X, com) ==
    [i \in 1..Len(X) |->
        RSum([a \in Cols(X) |-> RMul(RSub(X[i][a], com[a]), RSub(X[i][a], com[a]))])]

\* d2sum of one frame X (the data of an (N,3) array); w is None or the
\* flattened weights.
d2sumOf(X, w, wsum) ==
    IF IsNone(w)
    THEN Value(RSum(SquaredDistances(X, mean0(X))))
    ELSE IF ~CanMulLast(X, w.data)
    THEN ValueError("operands could not be broadcast together")
    ELSE LET com == VecDiv(mean0(MulLast(X, w.data)), wsum)
             d2 == SquaredDistances(X, com)
         IN  Value(RSum([i \in 1..Len(X) |-> RMul(d2[i], w.data[i])]))

\* The first of a sequence of outcomes that is not a value, if any.
FirstRaised(outs) ==
    LET bad == {m \in 1..Len(outs) : outs[m].kind # "value"}
    IN  IF bad = {} THEN None
        ELSE outs[CHOOSE m \in bad : \A k \in bad : m <= k]

calcRadiusOfGyration(coords_, weights_) ==
    IF ~IsArray(coords_) THEN TypeError("coords must be a array or atomic")
    ELSE IF ndim(coords_) \notin {2, 3}
    THEN ValueError("coords may be a 2 or 3 dimentional array")
    ELSE IF Last(coords_.shape) # 3
    THEN ValueError("coords must have shape ([n_coordsets,]n_atoms,3)")
    ELSE
      LET n_atoms == coords_.shape[Len(coords_.shape) - 1]
          flat == IF IsNone(weights_) THEN None ELSE flatten(weights_)
      IN  IF ~IsNone(flat) /\ flat.shape[1] # n_atoms
          THEN ValueError("length of weights must match number of atoms")
          ELSE
            LET wsum == IF IsNone(flat) THEN Q(n_atoms) ELSE RSum(flat.data)
            IN  IF ndim(coords_) = 2
                THEN LET d2sum == d2sumOf(coords_.data, flat, wsum)
                     IN  IF d2sum.kind # "value" THEN d2sum
                         ELSE Value(Sqrt(RDiv(d2sum.value, wsum)))
                ELSE LET rgyr_ == [m \in 1..Len(coords_.data) |->
                                      d2sumOf(coords_.data[m], flat, wsum)]
                     IN  IF ~IsNone(FirstRaised(rgyr_)) THEN FirstRaised(rgyr_)
                         ELSE Value(Arr(<<Len(rgyr_)>>,
                                        [m \in 1..Len(rgyr_) |->
                                            Sqrt(RDiv(rgyr_[m].value, wsum))]))

\* ---- inputs

\* Two points at (-1,0,0) and (1,0,0), and unit masses for them.
TwoPoints == Coords(QRows(<< <<-1, 0, 0>>, <<1, 0, 0>> >>))
UnitMasses(N) == Arr(<<N>>, [i \in 1..N |-> One])

\* Three points with the mean (1,1,0).
Triangle == Coords(QRows(<< <<0, 0, 0>>, <<3, 0, 0>>, <<0, 3, 0>> >>))

GyrationShapes ==
    {<<n, 3>> : n \in 1..MaxAtoms}
    \cup {<<m, n, 3>> : m \in 1..MaxConfs, n \in 1..MaxAtoms}
    \cup {<<3>>, <<MaxAtoms, 2>>, <<1, 1, MaxAtoms, 3>>}

GyrationCoords ==
    {Filled(s, seed, FALSE) : s \in GyrationShapes, seed \in 1..2}
    \cup {TwoPoints, Triangle, PyList}

\* Weights offered with coordinates of N atoms: none, masses as (N,) and
\* as (N,1) arrays, unit masses, and one mass too many.
GyrationWeights(N) ==
    {None, UnitMasses(N), Filled(<<N>>, 1, TRUE), Filled(<<N, 1>>, 2, TRUE),
     Filled(<<N + 1>>, 1, TRUE)}

AtomsOf(c) ==
    IF IsArray(c) /\ ndim(c) >= 2 THEN c.shape[Len(c.shape) - 1] ELSE 1

GyrationInputs ==
    UNION { {[coords |-> c, weights |-> w] : w \in GyrationWeights(AtomsOf(c))} :
            c \in GyrationCoords }

\* Rigid motions of a frame: proper rotations and shifts.
ProperTurns == {IsometrySeq[2], IsometrySeq[3]}
Shifts == {MobileOffset, TargetOffset}

InitGyration ==
    /\ \E in \in GyrationInputs : points = in.coords /\ weights = in.weights
    /\ rgyr = None /\ movedFrame = None
    /\ mobile = None /\ target = None /\ cov = None /\ xform = None
    /\ reference = None /\ rmsd = None
    /\ IdleBatch /\ IdleObjects /\ IdleAxes
    /\ superposed = None /\ IdleAlign

\* rgyr = calcRadiusOfGyration(points, weights)
CalcRadiusOfGyration ==
    /\ IsNone(rgyr)
    /\ rgyr' = calcRadiusOfGyration(points, weights)
    /\ UNCHANGED <<points, movedFrame, target, weights, solveVars, batchVars, objectVars, axesVars,
                 superposed, alignVars>>

\* The caller moves an (N,3) frame rigidly and calls again with the moved
\* frame and the same weights.
CalcRadiusOfGyrationMoved ==
    /\ ~IsNone(rgyr) /\ IsNone(movedFrame)
    /\ IsArray(points) /\ Len(points.shape) = 2
    /\ points.shape[2] = 3
    /\ \E R \in ProperTurns, t \in Shifts :
          LET A == Arr(points.shape,
                       _applyTransformation(Transformation(QRows(R), QRow(t)),
                                            points.data))
          IN  movedFrame' = [kind |-> "moved", coords |-> A,
                        rgyr |-> calcRadiusOfGyration(A, weights)]
    /\ UNCHANGED <<points, rgyr, target, weights, solveVars, batchVars, objectVars, axesVars,
                 superposed, alignVars>>

NextGyration == CalcRadiusOfGyration \/ CalcRadiusOfGyrationMoved

SpecGyration == InitGyration /\ [][NextGyration]_vars

\* ------------------------------------------------------------------------
\* Properties of calcRadiusOfGyration (SpecGyration)
\* ------------------------------------------------------------------------

\* The weights as one mass per atom: ones when there are none.
Masses(N) == IF IsNone(weights) THEN [i \in 1..N |-> One] ELSE weights.data

\* c = sum(w*x) / sum(w)
Centroid(X, w) ==
    [a \in 1..3 |-> RDiv(RSum([i \in 1..Len(X) |-> RMul(w[i], X[i][a])]), RSum(w))]

\* sum(w*|x-c|^2) / sum(w)
SquaredRadius(X, w) ==
    LET c == Centroid(X, w)
    IN  RDiv(RSum([i \in 1..Len(X) |-> RMul(w[i], Dist2(X[i], c))]), RSum(w))

\* The arguments are coordinates of shape ([M,]N,3) with N >= 1 and no
\* weights or a weight vector of length N.
GyrationArguments ==
    /\ IsArray(points) /\ ndim(points) \in {2, 3} /\ Last(points.shape) = 3
    /\ \A k \in 1..ndim(points) : points.shape[k] >= 1
    /\ \/ IsNone(weights)
       \/ weights.shape = <<points.shape[ndim(points) - 1]>>

\* C14: for coordinates (N,3) and no weights or a weight vector of length
\* N, calcRadiusOfGyration returns the square root of sum(w*|x-c|^2)/sum(w)
\* with c = sum(w*x)/sum(w) (w = 1 without weights); for a stack (M,N,3)
\* it returns the (M,) array of these; two unit masses at (-1,0,0) and
\* (1,0,0) give 1.
C14_GyrationFormula ==
    (~IsNone(rgyr) /\ GyrationArguments) =>
        LET N == points.shape[ndim(points) - 1]
        IN  /\ rgyr.kind = "value"
            /\ ndim(points) = 2 =>
                   rgyr.value = Sqrt(SquaredRadius(points.data, Masses(N)))
            /\ ndim(points) = 3 =>
                   rgyr.value = Arr(<<points.shape[1]>>,
                                    [m \in 1..points.shape[1] |->
                                        Sqrt(SquaredRadius(points.data[m], Masses(N)))])
            /\ (points = TwoPoints /\ weights \in {None, UnitMasses(2)}) =>
                   rgyr.value = Sqrt(One)

\* C15: the radius of gyration of a frame moved by a proper rotation and a
\* shift, with the same weights, is that of the frame.
C15_RigidInvariance ==
    (~IsNone(movedFrame) /\ GyrationArguments) =>
        /\ rgyr.kind = "value"
        /\ movedFrame.rgyr = rgyr

\* ------------------------------------------------------------------------
\* calcADPAxes
\*
\* A column of the axes array is kept as [s, var, dir]: the vector
\* s * sqrt(var) * dir / |dir| with s in {-1, 0, 1}, var the clamped
\* eigenvalue and dir the eigenvector as linalg.eigh returned it.
\* ------------------------------------------------------------------------

MaxPoints == 2

AttributeError(where) == [kind |-> "AttributeError", where |-> where]
AssertionError(where) == [kind |-> "AssertionError", where |-> where]

\* element: the symmetric 3x3 matrix of an anisou record
\* (U11, U22, U33, U12, U13, U23).
Element(anisou) ==
    << <<anisou[1], anisou[4], anisou[5]>>,
       <<anisou[4], anisou[2], anisou[6]>>,
       <<anisou[5], anisou[6], anisou[3]>> >>

MatVec(E, d) == [a \in 1..3 |-> E[a][1] * d[1] + E[a][2] * d[2] + E[a][3] * d[3]]

\* d is an eigenvector of E: E.d is a multiple of d, the eigenvalue.
IsEigenvector(E, d) ==
    \A a \in 1..3 : Norm2(d) * MatVec(E, d)[a] = IDot(d, MatVec(E, d)) * d[a]
Eigenvalue(E, d) == Rat(IDot(d, MatVec(E, d)), Norm2(d))

\* linalg.eigh(element): every (vals, vecs) it may return, vals ascending
\* and vecs[k] column k of vecs, a unit eigenvector for vals[k] given by a
\* direction.  The signs of the columns, and the basis of a repeated
\* eigenvalue, are a choice.
eighOf(E, Ev) ==
    UNION { UNION { { [vals |-> <<Eigenvalue(E, v1), Eigenvalue(E, v2), Eigenvalue(E, v3)>>,
                       vecs |-> <<v1, v2, v3>>] :
                        v3 \in {x \in Ev \cap OrthTo[v1] \cap OrthTo[v2] :
                                   RLeq(Eigenvalue(E, v2), Eigenvalue(E, x))} } :
                    v2 \in {x \in Ev \cap OrthTo[v1] :
                               RLeq(Eigenvalue(E, v1), Eigenvalue(E, x))} } :
            v1 \in Ev }

eigh(E) == eighOf(E, {d \in Dirs : IsEigenvector(E, d)})

\* vals[vals < 0] = 0
Clamped(vals_) == [k \in 1..3 |-> IF RSign(vals_[k]) < 0 THEN Zero ELSE vals_[k]]

\* np.sign((vecs * prev).sum(0)): for each column, the sign of the dot
\* product of the eigenvector with the previous atom's axis.
SignOfDot(v, prev) ==
    IF prev.var = Zero THEN 0
    ELSE prev.s * (IF IDot(v, prev.dir) > 0 THEN 1
                   ELSE IF IDot(v, prev.dir) < 0 THEN 0 - 1 ELSE 0)

FirstAxes(e) ==
    [k \in 1..3 |-> [s |-> 1, var |-> Clamped(e.vals)[k], dir |-> e.vecs[k]]]

NextAxes(e, prev) ==
    [k \in 1..3 |-> [s |-> SignOfDot(e.vecs[k], prev[k]),
                     var |-> Clamped(e.vals)[k], dir |-> e.vecs[k]]]

\* x[:, [2,1,0]] for each atom's three columns
Resort(x) == [p \in 1..Len(x) |-> <<x[p][3], x[p][2], x[p][1]>>]

\* a / b > c and a / b <= c in floating point: not true when a / b is
\* 0 / 0 (nan); b is not negative.
QuotientAbove(a, b, c) == RSign(b) > 0 /\ ~RLeq(a, RMul(c, b))
QuotientAtMost(a, b, c) == RSign(b) > 0 /\ RLeq(a, RMul(c, b))

FractMin == <<33, 100>>
Less(x, y) == ~RLeq(y, x)

\* kwargs: a sequence of (key, value) pairs, each key once.
Has(kw, key) == \E n \in 1..Len(kw) : kw[n][1] = key
Get(kw, key) == kw[CHOOSE n \in 1..Len(kw) : kw[n][1] = key][2]

\* torf for the atoms with the (resorted) variances v: None without a
\* filter, an AssertionError for a value out of range.
ratioAbove(v, dim, ratio) ==
    [p \in 1..Len(v) |-> ~QuotientAtMost(v[p][dim + 1], v[p][1], ratio)]
ratioAtMost(v, dim, ratio) ==
    [p \in 1..Len(v) |-> QuotientAtMost(v[p][dim + 1], v[p][1], ratio)]

torfOf(kw, v) ==
    IF Has(kw, "fract")
    THEN IF ~(Less(FractMin, Get(kw, "fract")) /\ Less(Get(kw, "fract"), One))
         THEN AssertionError("fract must be > 0.33 and < 1.0")
         ELSE Value([p \in 1..Len(v) |->
                        QuotientAbove(v[p][1], RSum(v[p]), Get(kw, "fract"))])
    ELSE IF Has(kw, "ratio") \/ Has(kw, "ratio3") \/ Has(kw, "ratio2")
    THEN LET ratio == IF Has(kw, "ratio2") THEN Get(kw, "ratio2")
                      ELSE IF Has(kw, "ratio") THEN Get(kw, "ratio") ELSE Get(kw, "ratio3")
             dim == IF Has(kw, "ratio2") THEN 1 ELSE 2
         IN  IF ~(Less(Zero, ratio) /\ Less(ratio, One))
             THEN AssertionError("ratio must be > 0 and < 1.0")
             ELSE Value(ratioAtMost(v, dim, ratio))
    ELSE None

\* axes * torf
Masked(x, torf) ==
    [p \in 1..Len(x) |-> [k \in 1..3 |->
        IF torf[p] THEN x[p][k] ELSE [x[p][k] EXCEPT !.s = 0]]]

\* ---- inputs

\* Anisou records: three different variances along x, y, z; the same along
\* z, y, x; a tensor with axes between x and y; two equal variances; a
\* negative eigenvalue; nothing but negative eigenvalues.
AnisouSeq ==
    << <<3, 2, 1, 0, 0, 0>>, <<1, 2, 3, 0, 0, 0>>, <<3, 3, 1, 1, 0, 0>>,
       <<2, 1, 1, 0, 0, 0>>, <<2, 1, -1, 0, 0, 0>>, <<-1, -2, -3, 0, 0, 0>> >>

AnisouStacks ==
    UNION { { [i \in 1..M |-> AnisouSeq[k + i - 1]] : k \in 1..(Len(AnisouSeq) - M + 1) } :
            M \in 1..MaxPoints }

AtomsWith(anisous) == [kind |-> "Atomic", anisous |-> anisous]

Half == Rat(1, 2)
Third == Rat(1, 3)
Quarter == Rat(1, 4)

Kwargs ==
    { <<>>, << <<"fract", Half>> >>, << <<"fract", Quarter>> >>,
      << <<"ratio", Half>> >>, << <<"ratio2", Half>> >>,
      << <<"ratio3", Third>> >>, << <<"ratio2", One>> >>,
      << <<"fract", Rat(2, 3)>>, <<"ratio", Half>> >> }

eighTable == Table([a \in {AnisouSeq[k] : k \in 1..Len(AnisouSeq)} |-> eigh(Element(a))])

InitADP ==
    /\ atoms \in {AtomsWith(Arr(<<Len(a), 6>>, a)) : a \in AnisouStacks} \cup {AtomsWith(None), PyList}
    /\ kwargs \in Kwargs
    /\ adp = [pc |-> "start", i |-> 0, eigs |-> <<>>, axes |-> <<>>,
              variances |-> <<>>, result |-> None]
    /\ mobile = None /\ target = None /\ weights = None /\ cov = None
    /\ xform = None /\ reference = None /\ rmsd = None
    /\ IdleBatch /\ IdleObjects /\ IdleGyration
    /\ superposed = None /\ IdleAlign

\* calcADPAxes up to the loop: the checks and the first atom.
CalcADPAxesEnter ==
    /\ adp.pc = "start"
    /\ IF atoms.kind # "Atomic"
       THEN adp' = [adp EXCEPT !.pc = "raised",
                               !.result = AttributeError("str has no attribute type")]
       ELSE IF IsNone(atoms.anisous)
       THEN adp' = [adp EXCEPT !.pc = "raised",
                               !.result = ValueError("anisotropic temperature factors are not set")]
       ELSE \E e \in eighTable[atoms.anisous.data[1]] :
               adp' = [adp EXCEPT !.pc = "loop", !.i = 1,
                                  !.eigs = <<e>>,
                                  !.variances = <<Clamped(e.vals)>>,
                                  !.axes = <<FirstAxes(e)>>]
    /\ UNCHANGED <<atoms, kwargs, target, weights, solveVars, batchVars,
                   objectVars, gyrationVars, superposed, alignVars>>

\* One pass of the loop over the atoms after the first.
CalcADPAxesPoint ==
    /\ adp.pc = "loop" /\ adp.i < Len(atoms.anisous.data)
    /\ \E e \in eighTable[atoms.anisous.data[adp.i + 1]] :
          adp' = [adp EXCEPT !.i = @ + 1,
                             !.eigs = Append(@, e),
                             !.variances = Append(@, Clamped(e.vals)),
                             !.axes = Append(@, NextAxes(e, adp.axes[adp.i]))]
    /\ UNCHANGED <<atoms, kwargs, target, weights, solveVars, batchVars,
                   objectVars, gyrationVars, superposed, alignVars>>

\* After the loop: the columns are resorted, the filter is applied and the
\* array is returned.
CalcADPAxesReturn ==
    /\ adp.pc = "loop" /\ adp.i = Len(atoms.anisous.data)
    /\ LET torf == torfOf(kwargs, Resort(adp.variances))
       IN  adp' = IF IsNone(torf)
                  THEN [adp EXCEPT !.pc = "returned",
                                   !.result = Value(Resort(adp.axes))]
                  ELSE IF torf.kind # "value"
                  THEN [adp EXCEPT !.pc = "raised", !.result = torf]
                  ELSE [adp EXCEPT !.pc = "returned",
                                   !.result = Value(Masked(Resort(adp.axes), torf.value))]
    /\ UNCHANGED <<atoms, kwargs, target, weights, solveVars, batchVars,
                   objectVars, gyrationVars, superposed, alignVars>>

NextADP == CalcADPAxesEnter \/ CalcADPAxesPoint \/ CalcADPAxesReturn

SpecADP == InitADP /\ [][NextADP]_vars

\* ------------------------------------------------------------------------
\* Properties of calcADPAxes (SpecADP)
\* ------------------------------------------------------------------------

AxesReturned == adp.pc = "returned"

ClampAtZero(x) == IF x[1] < 0 THEN Zero ELSE x

\* The eigenvalues of atom p clamped at zero, largest first (c = 1, 2, 3),
\* and the eigenvector that goes with each.
Variance(p, c) == ClampAtZero(adp.eigs[p].vals[4 - c])
Eigenvector(p, c) == adp.eigs[p].vecs[4 - c]

\* The squared length of a column, and whether two columns are one vector.
Magnitude2(col) == IF col.s = 0 THEN Zero ELSE col.var
IsZeroVector(col) == Magnitude2(col) = Zero
SameVector(a, b) ==
    \/ IsZeroVector(a) /\ IsZeroVector(b)
    \/ a.s = b.s /\ a.var = b.var /\ a.dir = b.dir

Emitted(p, c) == adp.result.value[p][c]
Unfiltered(p, c) == adp.axes[p][4 - c]
AtomsDone == 1..Len(adp.result.value)

\* C16: without a filter, column c of every atom has the square root of
\* the atom's c-th largest clamped eigenvalue as its length, so the lengths
\* do not increase from column 0 to column 2.
C16_MagnitudesAreRoots ==
    (AxesReturned /\ kwargs = <<>>) =>
        \A p \in AtomsDone :
            /\ \A c \in 1..3 : Magnitude2(Emitted(p, c)) = Variance(p, c)
            /\ \A c \in 1..2 :
                   RLeq(Magnitude2(Emitted(p, c + 1)), Magnitude2(Emitted(p, c)))

\* The dot product of a unit vector along v with an emitted column is
\* negative.
DotIsNegative(v, col) ==
    ~IsZeroVector(col) /\ col.s * IDot(v, col.dir) < 0

\* C17: without a filter, the first atom's columns are the scaled
\* eigenvectors as eigh returned them; a later atom's column is the scaled
\* eigenvector negated when its dot product with the previous atom's
\* column is negative, and the scaled eigenvector itself otherwise (also
\* when the dot product is zero).
C17_SignChoiceOnly ==
    (AxesReturned /\ kwargs = <<>>) =>
        \A p \in AtomsDone : \A c \in 1..3 :
            LET scaled == [s |-> 1, var |-> Variance(p, c), dir |-> Eigenvector(p, c)]
                negated == [scaled EXCEPT !.s = 0 - 1]
            IN  SameVector(Emitted(p, c),
                           IF p > 1 /\ DotIsNegative(Eigenvector(p, c), Emitted(p - 1, c))
                           THEN negated ELSE scaled)

AllZero(p) == \A c \in 1..3 : IsZeroVector(Emitted(p, c))
AllKept(p) == \A c \in 1..3 : Emitted(p, c) = Unfiltered(p, c)
TotalVariance(p) == RAdd(RAdd(Variance(p, 1), Variance(p, 2)), Variance(p, 3))

\* C18: with fract = f the axes of an atom are all zero when the largest
\* eigenvalue's share of the sum of the three is below f, and are what
\* they are without the filter when the share is f or more.
C18_FractZeroesBelow ==
    (AxesReturned /\ Has(kwargs, "fract")) =>
        \A p \in AtomsDone :
            RSign(TotalVariance(p)) > 0 =>
                IF Less(Variance(p, 1), RMul(Get(kwargs, "fract"), TotalVariance(p)))
                THEN AllZero(p)
                ELSE AllKept(p)

RatioFilter ==
    ~Has(kwargs, "fract")
    /\ (Has(kwargs, "ratio") \/ Has(kwargs, "ratio2") \/ Has(kwargs, "ratio3"))

\* The threshold r, and the eigenvalue compared with the largest: the
\* second largest in ratio2 mode, the smallest in ratio / ratio3 mode.
Threshold ==
    IF Has(kwargs, "ratio2") THEN Get(kwargs, "ratio2")
    ELSE IF Has(kwargs, "ratio") THEN Get(kwargs, "ratio") ELSE Get(kwargs, "ratio3")
Compared(p) == IF Has(kwargs, "ratio2") THEN Variance(p, 2) ELSE Variance(p, 3)
RatioAtMostThreshold(p) == RLeq(Compared(p), RMul(Threshold, Variance(p, 1)))

\* C19 as stated: with a ratio threshold r the axes of an atom are all zero
\* when the ratio of the compared eigenvalue to the largest is r or less,
\* and are what they are without the filter when the ratio is above r.
C19_RatioZeroesAtOrBelow ==
    (AxesReturned /\ RatioFilter) =>
        \A p \in AtomsDone :
            RSign(Variance(p, 1)) > 0 =>
                IF RatioAtMostThreshold(p) THEN AllZero(p) ELSE AllKept(p)

\* C19 (amended): with a ratio threshold r the axes of an atom are what
\* they are without the filter when the ratio of the compared eigenvalue
\* (second largest for ratio2, smallest for ratio / ratio3) to the largest
\* is r or less, and are all zero when the ratio is above r or the
\* largest eigenvalue is zero.
C19_RatioKeepsAtOrBelow ==
    (AxesReturned /\ RatioFilter) =>
        \A p \in AtomsDone :
            IF RSign(Variance(p, 1)) > 0 /\ RatioAtMostThreshold(p)
            THEN AllKept(p) ELSE AllZero(p)

\* Returned with a ratio filter: one atom at or below the threshold has
\* kept an axis, another above the threshold has lost axes that were not
\* zero.
C19_Witness ==
    /\ AxesReturned /\ RatioFilter
    /\ \E p \in AtomsDone :
          /\ RSign(Variance(p, 1)) > 0 /\ RatioAtMostThreshold(p)
          /\ ~AllZero(p)
    /\ \E q \in AtomsDone :
          /\ RSign(Variance(q, 1)) > 0 /\ ~RatioAtMostThreshold(q)
          /\ \E c \in 1..3 : ~IsZeroVector(Unfiltered(q, c))
          /\ AllZero(q)

\* ------------------------------------------------------------------------
\* superpose, and the calls of the module side by side
\* ------------------------------------------------------------------------

\* superpose(mobile, target, weights): calcTransformation, then
\* applyTransformation of the result to mobile; returns (result, t).
Superpose ==
    /\ IsNone(superposed)
    /\ IF ShapesAgree(mobile, target, weights)
       THEN \E t \in _calcTransformation(mobile.data, target.data, weights) :
               superposed' = [kind |-> "superposed", t |-> t,
                              result |-> Arr(mobile.shape,
                                             _applyTransformation(t, mobile.data))]
       ELSE superposed' = ValueError("calcTransformation")
    /\ UNCHANGED <<mobile, target, weights, cov, xform, reference, rmsd,
                   batchVars, objectVars, gyrationVars, axesVars, alignVars>>

\* A Transformation that has been constructed from the caller's first
\* rotation and its translation.
InitApply ==
    /\ heap = CallerArrays
    /\ transformation = TransformationObject(1, 4)
    /\ caller = [call |-> "__init__", args |-> <<1, 4>>, raised |-> FALSE,
                 result |-> 0, returned |-> {}, poked |-> {}]
    /\ mol \in {Atomic(c) : c \in MolCoordinates}
    /\ applied = None
    /\ IdleSolve /\ IdleBatch /\ IdleGyration /\ IdleAxes
    /\ superposed = None /\ IdleAlign

\* One call of one of the functions, with its arguments: calcTransformation
\* or superpose, calcRMSD, _superpose, applyTransformation,
\* calcRadiusOfGyration or calcADPAxes.
InitCalls ==
    \/ InitSolve
    \/ InitRMSD /\ ~IsNone(weights)
    \/ InitBatch
    \/ InitApply
    \/ InitGyration
    \/ InitADP /\ Len(kwargs) <= 1 /\ ~Has(kwargs, "ratio2")

NextCalls ==
    \/ ~IsNone(mobile) /\ IsNone(superposed) /\ CalcTransformationEnter
    \/ ~IsNone(mobile) /\ IsNone(superposed) /\ CalcTransformationReturn
    \/ ~IsNone(mobile) /\ IsNone(cov) /\ Superpose
    \/ IsNone(mobile) /\ ~IsNone(reference) /\ CalcRMSD
    \/ SuperposeFrame
    \/ Apply
    \/ ~IsNone(points) /\ CalcRadiusOfGyration
    \/ ~IsNone(points) /\ CalcRadiusOfGyrationMoved
    \/ ~IsNone(atoms) /\ CalcADPAxesEnter
    \/ ~IsNone(atoms) /\ CalcADPAxesPoint
    \/ ~IsNone(atoms) /\ CalcADPAxesReturn

SpecCalls == InitCalls /\ [][NextCalls]_vars

\* C20: no call changes an array it was given: calcTransformation, calcRMSD
\* and superpose leave mobile, target, reference and weights as they were,
\* calcRadiusOfGyration its coordinates and weights, calcADPAxes the atoms
\* and their anisotropic temperature factors, applyTransformation the
\* array it is given and the arrays of the transformation; a pass of
\* _superpose changes the mobile stack only without a move buffer, the
\* move buffer only with one, and neither target nor weights.
C20_InputsReadOnly ==
    [][ /\ mobile' = mobile /\ target' = target /\ weights' = weights
        /\ reference' = reference
        /\ points' = points
        /\ atoms' = atoms /\ kwargs' = kwargs
        /\ heap' = heap /\ transformation' = transformation
        /\ IF IsNone(movs) THEN movs' = movs ELSE mobs' = mobs
      ]_vars

\* _superpose has returned after rewriting its move buffer, or superpose
\* has returned a moved copy of mobile.
C20_Witness ==
    \/ status = "returned" /\ ~IsNone(movs) /\ movs # pre.movs
    \/ superposed.kind = "superposed" /\ superposed.result # mobile

\* ------------------------------------------------------------------------
\* alignCoordsets(atoms, selstr, weights)
\* ------------------------------------------------------------------------

MaxCoordsets == 3

\* The atoms of a molecule.  An AtomGroup holds the coordinate sets of all
\* its atoms and the index of the active one; written lists the indices of
\* the coordinate sets that setCoordinates has been called on.  A Selection
\* or AtomSubset points at some atoms of the group and has an active index
\* of its own.  Indices count from 0.
AtomGroup(coordinates, acsi, names) ==
    [kind |-> "AtomGroup", _coordinates |-> coordinates, _acsi |-> acsi,
     names |-> names, written |-> <<>>]
AtomSubset(indices, acsi) == [kind |-> "AtomSubset", _indices |-> indices, _acsi |-> acsi]
Selection(indices, acsi) == [kind |-> "Selection", _indices |-> indices, _acsi |-> acsi]
TheGroup == [kind |-> "AtomGroup"]

IsAtomic(a) == a.kind \in {"AtomGroup", "AtomSubset", "Selection"}
Str(s) == [kind |-> "str", value |-> s]
IsStr(s) == s.kind = "str"

getNumOfCoordsets(g) == Len(g._coordinates)
getActiveCoordsetIndex(g, a) == IF a.kind = "AtomGroup" THEN g._acsi ELSE a._acsi
setActiveCoordsetIndex(g, index) == [g EXCEPT !._acsi = index]
getIndices(g, a) ==
    IF a.kind = "AtomGroup" THEN [k \in 1..Len(g.names) |-> k - 1] ELSE a._indices

\* The rows of X at the indices of seq.
Take(X, seq) == [k \in 1..Len(seq) |-> X[seq[k] + 1]]

\* a.getCoordinates(): the active coordinate set of the group, or the rows
\* of the atoms pointed at in the coordinate set of the pointer's index.
getCoordinatesOf(g, a) ==
    IF a.kind = "AtomGroup" THEN Coords(g._coordinates[g._acsi + 1])
    ELSE Coords(Take(g._coordinates[a._acsi + 1], a._indices))

\* ag.setCoordinates(coordinates): the active coordinate set is replaced.
setCoordinatesOf(g, coordinates) ==
    [g EXCEPT !._coordinates[g._acsi + 1] = coordinates.data,
              !.written = Append(@, g._acsi)]

\* Which atoms a selection string matches.
Matches(selstr, name) ==
    \/ selstr = "all"
    \/ selstr = "calpha" /\ name = "CA"

\* a.select(selstr): the atoms of a that match, with the active index of a,
\* or None when no atom matches.
select(g, a, selstr) ==
    LET matching == SelectSeq(getIndices(g, a), LAMBDA k : Matches(selstr, g.names[k + 1]))
    IN  IF matching = <<>> THEN None
        ELSE Selection(matching, getActiveCoordsetIndex(g, a))

\* calcTransformation(mobile, target, weights) for arrays: the shape checks,
\* then every Transformation _calcTransformation may return.
calcTransformation(mob, tar, w) ==
    IF ShapesAgree(mob, tar, w) THEN _calcTransformation(mob.data, tar.data, w)
    ELSE {ValueError("calcTransformation")}

\* Transformation.apply(ag): applyTransformation with the group, which
\* reads its active coordinate set and sets it to the moved coordinates.
apply(t, g) ==
    setCoordinatesOf(g,
        applyTransformation(<<Arr(<<3, 3>>, t.rotation), Arr(<<3>>, t.translation)>>,
                            TransformationObject(1, 2),
                            Atomic(getCoordinatesOf(g, TheGroup))).mol.coordinates)

\* The call when it has ended: returned None, or raised.
Ended(c, kind, result) == [c EXCEPT !.pc = kind, !.result = result]

\* alignCoordsets up to the loop: the checks of the arguments, the early
\* return, then the locals the loop works with.
alignCoordsetsEnter(g, c) ==
    IF ~IsAtomic(c.atoms) \/ ~IsStr(c.selstr) THEN Ended(c, "raised", TypeError("alignCoordsets"))
    ELSE IF getNumOfCoordsets(g) < 2 THEN Ended(c, "returned", None)
    ELSE LET tar == select(g, c.atoms, c.selstr.value) IN
         IF IsNone(tar) THEN Ended(c, "raised", AttributeError("alignCoordsets"))
         ELSE IF tar._acsi # getActiveCoordsetIndex(g, c.atoms)
         THEN Ended(c, "raised", AssertionError("alignCoordsets"))
         ELSE [c EXCEPT !.pc = "loop",
                        !.n_coordsets = getNumOfCoordsets(g),
                        !.acsi = getActiveCoordsetIndex(g, c.atoms),
                        !.agacsi = g._acsi,
                        !.tar = tar,
                        !.mob = AtomSubset(getIndices(g, tar), 0),
                        !.i = 0]

\* A pass of the loop that leaves the active index of the group alone.
alignCoordsetsPassActiveOnly(g, c) ==
    IF c.i = c.acsi THEN {<<g, [c EXCEPT !.i = @ + 1]>>}
    ELSE UNION { { IF Raised(t) THEN <<g, Ended(d, "raised", t)>>
                   ELSE <<apply(t, g), [d EXCEPT !.i = @ + 1]>> :
                   t \in calcTransformation(getCoordinatesOf(g, d.mob),
                                            getCoordinatesOf(g, d.tar), d.weights) } :
                 d \in {[c EXCEPT !.mob._acsi = c.i]} }

\* Pass i of the loop: the pairs of the group and the call it may leave.
\* The active coordinate set is skipped; for any other, mob and the group
\* are pointed at it, the transformation of mob onto tar is computed and
\* applied to the group.
alignCoordsetsPass(g, c) ==
    IF c.i = c.acsi THEN {<<g, [c EXCEPT !.i = @ + 1]>>}
    ELSE UNION { { IF Raised(t) THEN <<h, Ended(d, "raised", t)>>
                   ELSE <<apply(t, h), [d EXCEPT !.i = @ + 1]>> :
                   t \in calcTransformation(getCoordinatesOf(h, d.mob),
                                            getCoordinatesOf(h, d.tar), d.weights) } :
                 d \in {[c EXCEPT !.mob._acsi = c.i]},
                 h \in {setActiveCoordsetIndex(g, c.i)} }

\* Five atoms, four of them alpha carbons, and their coordinate sets: the
\* alpha carbons turn from one set to the next, and the fifth atom either
\* turns with them or stays where it is.
AtomNames == <<"CA", "CA", "CA", "CA", "N">>
FivePointsTurned(iso) ==
    AddRow(Dot(Append(QRows(Tetra(BatchShape)), QRow(<<0, 0, MaxScale>>)), QRows(iso)),
           QRow(MobileOffset))
Coordsets(M, rigid) ==
    [j \in 1..M |-> IF rigid THEN FivePointsTurned(IsometrySeq[((j - 1) % Turns) + 1])
                    ELSE FivePoints(IsometrySeq[((j - 1) % Turns) + 1])]
Groups ==
    { AtomGroup(Coordsets(M, rigid), a, AtomNames) :
      M \in 0..MaxCoordsets, a \in 0..MaxCoordsets, rigid \in BOOLEAN }

\* What alignCoordsets may be given for the group g: the group, a pointer
\* to all its atoms with an active index of its own, or a list; a selection
\* string or a list; no weights or a weight for each alpha carbon.
AlignAtoms(g) ==
    {TheGroup, PyList}
    \cup { Selection(getIndices(g, TheGroup), a) : a \in 0..(getNumOfCoordsets(g) - 1) }
AlignSelstr == {Str("calpha"), Str("all"), Str("water"), PyList}
AlignWeights == {None, Weights(<<1, 1, MaxWeight, MaxWeight>>)}

InitAlign ==
    /\ ag \in {g \in Groups : g._acsi < getNumOfCoordsets(g) \/ g._acsi = 0}
    /\ \E a \in AlignAtoms(ag), s \in AlignSelstr, w \in AlignWeights :
          align = [kind |-> "alignCoordsets", pc |-> "called",
                   atoms |-> a, selstr |-> s, weights |-> w,
                   n_coordsets |-> 0, acsi |-> 0, agacsi |-> 0,
                   tar |-> None, mob |-> None, i |-> 0,
                   result |-> None, given |-> ag]
    /\ IdleSolve /\ IdleBatch /\ IdleObjects /\ IdleGyration /\ IdleAxes
    /\ superposed = None

AlignUnchanged ==
    UNCHANGED <<target, weights, solveVars, batchVars, objectVars, gyrationVars,
                axesVars, superposed>>

AlignCoordsetsEnter ==
    /\ align.pc = "called"
    /\ align' = alignCoordsetsEnter(ag, align)
    /\ ag' = ag
    /\ AlignUnchanged

AlignCoordsetsPass ==
    /\ align.pc = "loop" /\ align.i < align.n_coordsets
    /\ \E s \in alignCoordsetsPass(ag, align) : ag' = s[1] /\ align' = s[2]
    /\ AlignUnchanged

\* After the loop the group gets back the active index it had.
AlignCoordsetsReturn ==
    /\ align.pc = "loop" /\ align.i = align.n_coordsets
    /\ ag' = setActiveCoordsetIndex(ag, align.agacsi)
    /\ align' = Ended(align, "returned", None)
    /\ AlignUnchanged

NextAlign == AlignCoordsetsEnter \/ AlignCoordsetsPass \/ AlignCoordsetsReturn

SpecAlign == InitAlign /\ [][NextAlign]_vars

\* ------------------------------------------------------------------------
\* Properties of alignCoordsets (SpecAlign)
\* ------------------------------------------------------------------------

\* The group as it was when alignCoordsets was called, the number of its
\* coordinate sets, and the active index of the atoms given.
Before == align.given
NumOfCoordsets == Len(Before._coordinates)
ActiveIndex == IF align.atoms.kind = "AtomGroup" THEN Before._acsi ELSE align.atoms._acsi

\* The indices of the atoms given that the selection string matches, in
\* ascending order.
Pointed ==
    IF align.atoms.kind = "AtomGroup" THEN 0..(Len(Before.names) - 1)
    ELSE {align.atoms._indices[k] : k \in 1..Len(align.atoms._indices)}
IsSelected(k) ==
    /\ k \in Pointed
    /\ \/ align.selstr.value = "all"
       \/ align.selstr.value = "calpha" /\ Before.names[k + 1] = "CA"
SelectedRows(X) ==
    LET ks == SelectSeq([k \in 1..Len(X) |-> k - 1], IsSelected)
    IN  [j \in 1..Len(ks) |-> X[ks[j] + 1]]

\* Coordinate set i of the group as it was, moved by a transformation of
\* its selected atoms onto those of the active coordinate set.
Aligned(i) ==
    LET X == Before._coordinates[i + 1] IN
    { [k \in 1..Len(X) |-> PointImage(X[k], t.rotation, t.translation)] :
      t \in _calcTransformation(SelectedRows(X),
                                SelectedRows(Before._coordinates[ActiveIndex + 1]),
                                align.weights) }

\* How often setCoordinates has been called on coordinate set i.
TimesWritten(i) == Cardinality({k \in 1..Len(ag.written) : ag.written[k] = i})

ValidArguments == IsAtomic(align.atoms) /\ IsStr(align.selstr)

\* C21: when alignCoordsets returns for atoms with two or more coordinate
\* sets, the coordinate set at the active index of the atoms is as it was
\* and has not been written, every other coordinate set has been written
\* exactly once and is the set as it was, moved by a transformation of its
\* selected atoms onto those of the active set, and the active index of the
\* atom group is what it was before the call.  With fewer than two
\* coordinate sets the call returns None and leaves the coordinates and
\* the active index as they were.
C21_AlignsOntoActive ==
    /\ (align.pc = "returned" /\ NumOfCoordsets >= 2) =>
          /\ IsNone(align.result)
          /\ ag._coordinates[ActiveIndex + 1] = Before._coordinates[ActiveIndex + 1]
          /\ TimesWritten(ActiveIndex) = 0
          /\ \A i \in (0..(NumOfCoordsets - 1)) \ {ActiveIndex} :
                /\ TimesWritten(i) = 1
                /\ ag._coordinates[i + 1] \in Aligned(i)
          /\ ag._acsi = Before._acsi
    /\ (align.pc # "called" /\ NumOfCoordsets < 2) =>
          /\ ag = Before
          /\ ValidArguments => (align.pc = "returned" /\ IsNone(align.result))

\* alignCoordsets has returned for a pointer whose active index is not that
\* of its group of three or more coordinate sets, and has moved atoms.
C21_Witness ==
    /\ align.pc = "returned" /\ NumOfCoordsets >= 3
    /\ align.atoms.kind = "Selection" /\ ActiveIndex # Before._acsi
    /\ \A i \in (0..(NumOfCoordsets - 1)) \ {ActiveIndex} :
          ag._coordinates[i + 1] # Before._coordinates[i + 1]

====
